---- MODULE Spec2Model ----
(***************************************************************************)
(* Model of endless_treasure.py: the filename-to-card indexer              *)
(* (extract_trailing_number, scan_cards, index_all_cards), the random      *)
(* selection of RandomFrame, the manual selection of CustomFrame, the      *)
(* compositor and the card browser of BrowserFrame.                        *)
(*                                                                         *)
(* A file name is a TLA+ string; a path is a pair <<dir, name>>.  None is  *)
(* Python's None.  The filesystem (disk) and the platform's glob case      *)
(* sensitivity are state the program reads but never writes.               *)
(***************************************************************************)
EXTENDS Integers, Sequences, FiniteSets, TLC

VARIABLES
    caseSensitive,  \* platform: pathlib's glob matches case-sensitively (POSIX) or not (Windows)
    disk,           \* filesystem: directory id -> set of file names in it
    arg,            \* argument of the function under study (pure-function specifications)
    ret,            \* what it returned
    folder,         \* TreasureApp.folder
    random_tab,     \* the RandomFrame
    custom_tab,     \* the CustomFrame
    browser_tab,    \* the BrowserFrame
    dialogs,        \* the message boxes the last operation showed, in order
    last_render,    \* what the last render_custom did: lookups made, entries resolved, exception raised
    last_op,        \* the operation that ran last
    escaped,        \* an exception left the last operation uncaught (Tk prints the traceback)
    after_queue,    \* Tk's timer queue: the scheduled callbacks, as <<tab, job id>>
    edits           \* how many times the user has typed into an entry

fnVars == <<arg, ret>>
appVars == <<folder, random_tab, custom_tab, browser_tab, dialogs, last_render, last_op, escaped,
            after_queue, edits>>
vars == <<caseSensitive, disk, arg, ret, folder, random_tab, custom_tab, browser_tab, dialogs,
          last_render, last_op, escaped, after_queue, edits>>

\* Python's None where an int is expected; re.search's None where a match is expected;
\* None where a Path is expected; None where an object (image, frame) is expected
None == -1
NoMatch == ""
NoPath == <<>>
NoneObject == [none |-> TRUE]

\* a local variable: Body with the value of v, v being evaluated once
With(v, Body(_)) == CHOOSE y \in {Body(x) : x \in {v}} : TRUE

----------------------------------------------------------------------------
(* Characters and strings                                                  *)

Digits == "0123456789"
UpperChars == "ABCDEFGHIJKLMNOPQRSTUVWXYZ"
LowerChars == "abcdefghijklmnopqrstuvwxyz"
\* the characters of file names, in code-point order (what sorted() compares)
CodeOrder == "\n -.0123456789ABCDEFGHIJKLMNOPQRSTUVWXYZ_abcdefghijklmnopqrstuvwxyz"

Ch(s, i) == SubSeq(s, i, i)

IndexIn(s, c) == IF \E i \in 1..Len(s) : Ch(s, i) = c
                 THEN CHOOSE i \in 1..Len(s) : Ch(s, i) = c
                 ELSE 0

IsDigit(c) == IndexIn(Digits, c) > 0

DigitVal(c) == IndexIn(Digits, c) - 1

\* str.lower() on one character
LowerCh(c) == IF IndexIn(UpperChars, c) > 0 THEN Ch(LowerChars, IndexIn(UpperChars, c)) ELSE c

RECURSIVE LowerStr(_)
\* str.lower()
LowerStr(s) == IF Len(s) = 0 THEN "" ELSE LowerCh(Ch(s, 1)) \o LowerStr(Tail(s))

RECURSIVE ParseInt(_)
\* int() of a run of digits
ParseInt(s) == IF Len(s) = 0 THEN 0
               ELSE ParseInt(SubSeq(s, 1, Len(s) - 1)) * 10 + DigitVal(Ch(s, Len(s)))

RECURSIVE StrLess(_, _)
\* a < b for Python strings (lexicographic by code point)
StrLess(a, b) ==
    IF Len(b) = 0 THEN FALSE
    ELSE IF Len(a) = 0 THEN TRUE
    ELSE IF Ch(a, 1) = Ch(b, 1) THEN StrLess(Tail(a), Tail(b))
    ELSE IndexIn(CodeOrder, Ch(a, 1)) < IndexIn(CodeOrder, Ch(b, 1))

\* s[i:] starts with t, ignoring case (re.IGNORECASE)
StartsWithAt(s, i, t) ==
    /\ i + Len(t) - 1 <= Len(s)
    /\ LowerStr(SubSeq(s, i, i + Len(t) - 1)) = t

----------------------------------------------------------------------------
(* extract_trailing_number                                                 *)

\* `$': at the end of the string, or just before a newline that ends it
AtEnd(s, i) == \/ i = Len(s) + 1
               \/ (i = Len(s) /\ Ch(s, i) = "\n")

\* the lookahead without its `$': an extension anywhere after the digits
ExtensionAhead_Unanchored(s, i) ==
    \/ StartsWithAt(s, i, ".jpg")
    \/ StartsWithAt(s, i, ".jpeg")

\* the lookahead (?=\.(?:jpe?g)$) at position i
ExtensionAhead(s, i) ==
    \/ (StartsWithAt(s, i, ".jpg") /\ AtEnd(s, i + 4))
    \/ (StartsWithAt(s, i, ".jpeg") /\ AtEnd(s, i + 5))

\* positions j such that s[i..j] is a non-empty run of digits (\d+ and its backtracking)
DigitEnds(s, i) == {j \in i..Len(s) : \A k \in i..j : IsDigit(Ch(s, k))}

RECURSIVE SkipSeparators(_, _)
\* positions [ _-]* can stop at when started at i (it may give characters back)
SkipSeparators(s, i) ==
    IF i <= Len(s) /\ Ch(s, i) \in {" ", "_", "-"}
    THEN {i} \cup SkipSeparators(s, i + 1)
    ELSE {i}

Suffixes == {"front", "back", "a", "b"}

\* positions (?:front|back|a|b)? can stop at when started at i
SkipSuffix(s, i) == {i} \cup {i + Len(t) : t \in {u \in Suffixes : StartsWithAt(s, i, u)}}

\* ends j of \d+ for which the strict pattern matches from start i
StrictEnds(s, i) == {j \in DigitEnds(s, i) : ExtensionAhead(s, j + 1)}

\* ends j of \d+ for which the relaxed pattern matches from start i
RelaxedEnds(s, i) ==
    {j \in DigitEnds(s, i) :
        \E k \in SkipSeparators(s, j + 1) : \E m \in SkipSuffix(s, k) : ExtensionAhead(s, m)}

Max(S) == CHOOSE x \in S : \A y \in S : y <= x
Min(S) == CHOOSE x \in S : \A y \in S : x <= y

\* re.search: the leftmost start that matches, \d+ taking the longest run that still matches
SearchStrict(s) ==
    LET starts == {i \in 1..Len(s) : StrictEnds(s, i) # {}}
    IN IF starts = {} THEN NoMatch
       ELSE SubSeq(s, Min(starts), Max(StrictEnds(s, Min(starts))))

SearchRelaxed(s) ==
    LET starts == {i \in 1..Len(s) : RelaxedEnds(s, i) # {}}
    IN IF starts = {} THEN NoMatch
       ELSE SubSeq(s, Min(starts), Max(RelaxedEnds(s, Min(starts))))

extract_trailing_number(name) ==
    IF SearchStrict(name) # NoMatch THEN ParseInt(SearchStrict(name))
    ELSE IF SearchRelaxed(name) # NoMatch THEN ParseInt(SearchRelaxed(name))
    ELSE None

----------------------------------------------------------------------------
(* The file names of the model                                             *)

\* file names a cards folder may hold: in and out of 21..220, both parities, the
\* extension in several cases, two files for one number, names equal up to case,
\* a relaxed suffix, an unnumbered file, a file that is no JPG
ScanNames == {"a21.jpg", "a22.jpg", "b22.jpg", "A22.jpg", "c24.JPG", "c26.Jpg", "c28.jpeg",
              "c20.jpg", "c220.jpg", "c221.jpg", "d1.jpg", "d2.jpg", "d.jpg",
              "e30_back.jpg", "f32.png"}

\* file names for the special case of card 1: a numbered card 1, two files for
\* card 2, unnumbered files whose stem is, is not, or is up to case the stem of a
\* card 2, two unnumbered files with one stem
IndexNames == {"d1.jpg", "d2.jpg", "e2.jpg", "d.jpg", "d.jpeg", "e.jpg", "D.jpg"}

\* the directories of the application-level specifications, each with the orders
\* os.scandir is taken to yield it in (ascending and descending by name)
\*   1: exactly four backs (22, 24, 26, 28) and one front (21)
\*   2: three backs, a front without its back (29), a front that cannot be decoded (31)
\*   3: no file at all
\*   4: four backs and one front, the front (31), lowest card of the folder, cannot
\*      be decoded
\*   5: four backs and two fronts, the lowest card of the folder (21) cannot be decoded
AppListings ==
    << {<<"a21.jpg", "a22.jpg", "a24.jpg", "a26.jpg", "a28.jpg">>,
        <<"a28.jpg", "a26.jpg", "a24.jpg", "a22.jpg", "a21.jpg">>},
       {<<"b22.jpg", "b24.jpg", "b26.jpg", "b29.jpg", "x31.jpg">>,
        <<"x31.jpg", "b29.jpg", "b26.jpg", "b24.jpg", "b22.jpg">>},
       {<<>>},
       {<<"c32.jpg", "c34.jpg", "c36.jpg", "c38.jpg", "x31.jpg">>,
        <<"x31.jpg", "c38.jpg", "c36.jpg", "c34.jpg", "c32.jpg">>},
       {<<"e22.jpg", "e23.jpg", "e24.jpg", "e26.jpg", "e28.jpg", "x21.jpg">>} >>

AppDisk == [d \in DOMAIN AppListings |-> UNION {{o[i] : i \in DOMAIN o} : o \in AppListings[d]}]

Dirs == DOMAIN AppListings

\* the files Image.open cannot decode
Unreadable == {"x31.jpg", "x21.jpg"}

KnownNames == ScanNames \cup IndexNames \cup UNION {AppDisk[d] : d \in Dirs}

\* extract_trailing_number and str.lower evaluated once for every name of the model
NumberTable == {<<nm, extract_trailing_number(nm)>> : nm \in KnownNames}
LowerTable == {<<nm, LowerStr(nm)>> : nm \in KnownNames}

\* extract_trailing_number(p) for a path p
NumberOf(p) == IF p[2] \in KnownNames
               THEN (CHOOSE e \in NumberTable : e[1] = p[2])[2]
               ELSE extract_trailing_number(p[2])

\* name.lower()
LowerOf(name) == IF name \in KnownNames
                 THEN (CHOOSE e \in LowerTable : e[1] = name)[2]
                 ELSE LowerStr(name)

----------------------------------------------------------------------------
(* Directory enumeration: folder.glob                                      *)

\* fnmatch of the pattern "*" + ext against a name: pathlib compiles the pattern
\* with re.IGNORECASE on Windows and without it on POSIX
GlobMatch(name, ext) ==
    /\ Len(name) >= Len(ext)
    /\ IF caseSensitive
       THEN SubSeq(name, Len(name) - Len(ext) + 1, Len(name)) = ext
       ELSE SubSeq(LowerOf(name), Len(name) - Len(ext) + 1, Len(name)) = LowerStr(ext)

\* the orders os.scandir may yield the files of a directory in
EnumOrders(dir) ==
    LET files == disk[dir]
        n == Cardinality(files)
    IN {o \in [1..n -> files] : \A i, j \in 1..n : o[i] = o[j] => i = j}

\* Path.name
NameOf(p) == p[2]

\* list(folder.glob("*" + ext)), the directory being enumerated in the order `order'
glob(dir, order, ext) ==
    SelectSeq([i \in DOMAIN order |-> <<dir, order[i]>>],
              LAMBDA p : GlobMatch(NameOf(p), ext))

\* jpgs: the four globs of scan_cards and index_all_cards, concatenated
Jpgs(dir, order) ==
    glob(dir, order, ".jpg") \o glob(dir, order, ".JPG") \o
    glob(dir, order, ".jpeg") \o glob(dir, order, ".JPEG")

Range(f) == {f[i] : i \in DOMAIN f}

\* how many times x occurs in the list
Count(list, x) == Cardinality({i \in 1..Len(list) : list[i] = x})

----------------------------------------------------------------------------
(* scan_cards                                                              *)

\* scan_cards taking the range as 21 < n: a plausible off-by-one
scan_cards_OffByOne(dir, order) ==
    LET inRange(p) == NumberOf(p) # None /\ 21 < NumberOf(p) /\ NumberOf(p) <= 220
    IN With(Jpgs(dir, order), LAMBDA jpgs :
            [fronts |-> SelectSeq(jpgs, LAMBDA p : inRange(p) /\ NumberOf(p) % 2 = 1),
             backs  |-> SelectSeq(jpgs, LAMBDA p : inRange(p) /\ NumberOf(p) % 2 # 1)])

scan_cards(dir, order) ==
    LET inRange(p) == NumberOf(p) # None /\ 21 <= NumberOf(p) /\ NumberOf(p) <= 220
    IN With(Jpgs(dir, order), LAMBDA jpgs :
            [fronts |-> SelectSeq(jpgs, LAMBDA p : inRange(p) /\ NumberOf(p) % 2 = 1),
             backs  |-> SelectSeq(jpgs, LAMBDA p : inRange(p) /\ NumberOf(p) % 2 # 1)])

----------------------------------------------------------------------------
(* index_all_cards                                                         *)

\* sorted(paths, key=lambda q: q.name.lower())[0]: sorted() is stable, so among the
\* paths with the least key the one that comes first in the list is taken
SortedFirst(paths) ==
    LET key(i) == LowerOf(NameOf(paths[i]))
        least == {i \in 1..Len(paths) : \A j \in 1..Len(paths) : ~StrLess(key(j), key(i))}
    IN paths[Min(least)]

\* Path.stem: the name without its last suffix
PathStem(name) ==
    LET dots == {i \in 1..Len(name) : Ch(name, i) = "."}
    IN IF dots = {} \/ Max(dots) = 1 \/ Max(dots) = Len(name) THEN name
       ELSE SubSeq(name, 1, Max(dots) - 1)

RECURSIVE _strip_trailing_digits(_)
\* re.sub(r"\d+$", "", stem)
_strip_trailing_digits(stem) ==
    IF Len(stem) > 0 /\ IsDigit(Ch(stem, Len(stem)))
    THEN _strip_trailing_digits(SubSeq(stem, 1, Len(stem) - 1))
    ELSE stem

\* the value of key n in a dict held as a set of <<key, value>> items
ItemOf(items, n) == (CHOOSE e \in items : e[1] = n)[2]

\* index_all_cards as it would be if any unnumbered file were taken for card 1
index_all_cards_AnyStem(dir, order) ==
    With(Jpgs(dir, order), LAMBDA jpgs :
        LET unnumbered == SelectSeq(jpgs, LAMBDA p : NumberOf(p) = None)
            bucket(n) == SelectSeq(jpgs, LAMBDA p : NumberOf(p) = n)
            keys == {n \in {NumberOf(p) : p \in Range(jpgs)} : 1 <= n /\ n <= 220}
        IN With({<<n, SortedFirst(bucket(n))>> : n \in keys}, LAMBDA chosen :
               LET special == 1 \notin keys /\ 2 \in keys /\ Len(unnumbered) > 0
               IN With(IF special THEN chosen \cup {<<1, SortedFirst(unnumbered)>>} ELSE chosen,
                       LAMBDA items : [n \in {e[1] : e \in items} |-> ItemOf(items, n)])))

\* the dict `chosen' as a function from the card numbers it holds to paths
index_all_cards(dir, order) ==
    With(Jpgs(dir, order), LAMBDA jpgs :
        LET unnumbered == SelectSeq(jpgs, LAMBDA p : NumberOf(p) = None)
            bucket(n) == SelectSeq(jpgs, LAMBDA p : NumberOf(p) = n)
            keys == {n \in {NumberOf(p) : p \in Range(jpgs)} : 1 <= n /\ n <= 220}
        IN With({<<n, SortedFirst(bucket(n))>> : n \in keys}, LAMBDA chosen :
               LET base == _strip_trailing_digits(PathStem(NameOf(ItemOf(chosen, 2))))
                   candidates ==
                       SelectSeq(unnumbered,
                                 LAMBDA p : _strip_trailing_digits(PathStem(NameOf(p))) = base)
                   special == 1 \notin keys /\ 2 \in keys /\ Len(unnumbered) > 0
                              /\ Len(candidates) > 0
               IN With(IF special THEN chosen \cup {<<1, SortedFirst(candidates)>>} ELSE chosen,
                       LAMBDA items : [n \in {e[1] : e \in items} |-> ItemOf(items, n)])))

----------------------------------------------------------------------------
(* compose_treasure                                                        *)

\* Card constants
CARD_W == 744
CARD_H == 1039
OFF_BACK2 == <<0, 595>>
OFF_BACK3 == <<-234, 144>>
OFF_FRONT == <<0, 144>>
CROP_BOX == <<238, 233, 738, 575>>
OUTER_MARGIN == 40
RIGHT_GAP == 60
SHADOW_OFFSET == <<10, 10>>

\* the pixel size of the image a file holds: some scans are not card-sized
ImageSize(name) == IF name \in {"a24.jpg", "b24.jpg", "c34.jpg"} THEN <<372, 520>>
                   ELSE <<CARD_W, CARD_H>>

\* load_card: the image of the file, resized to the card size when it differs
load_card(pth) ==
    [src |-> pth,
     size |-> IF ImageSize(NameOf(pth)) # <<CARD_W, CARD_H>> THEN <<CARD_W, CARD_H>>
              ELSE ImageSize(NameOf(pth))]

Abs(x) == IF x < 0 THEN 0 - x ELSE x


\* the layout without the outer margin below the cluster
Layout_NoBottomMargin ==
    LET base_x == OUTER_MARGIN + Abs(OFF_BACK3[1])
        base_y == OUTER_MARGIN
        p1 == <<base_x, base_y>>
        p2 == <<base_x + OFF_BACK2[1], base_y + OFF_BACK2[2]>>
        p3 == <<base_x + OFF_BACK3[1], base_y + OFF_BACK3[2]>>
        p4 == <<base_x + OFF_FRONT[1], base_y + OFF_FRONT[2]>>
        right == Max({p1[1], p2[1], p3[1], p4[1]}) + CARD_W
        bottom == Max({p1[2], p2[2], p3[2], p4[2]}) + CARD_H
        crop_w == CROP_BOX[3] - CROP_BOX[1]
        crop_h == CROP_BOX[4] - CROP_BOX[2]
        panel_x == right + RIGHT_GAP
        panel_y == OUTER_MARGIN
    IN [p1 |-> p1, p2 |-> p2, p3 |-> p3, p4 |-> p4,
        left |-> Min({p1[1], p2[1], p3[1], p4[1]}), right |-> right,
        top |-> Min({p1[2], p2[2], p3[2], p4[2]}), bottom |-> bottom,
        crop_w |-> crop_w, crop_h |-> crop_h, panel_x |-> panel_x, panel_y |-> panel_y,
        canvas_w |-> panel_x + crop_w + OUTER_MARGIN,
        canvas_h |-> Max({bottom, panel_y + crop_h + OUTER_MARGIN})]

\* the positions, the cluster bounds, the panel position and the canvas size
Layout ==
    LET base_x == OUTER_MARGIN + Abs(OFF_BACK3[1])
        base_y == OUTER_MARGIN
        p1 == <<base_x, base_y>>
        p2 == <<base_x + OFF_BACK2[1], base_y + OFF_BACK2[2]>>
        p3 == <<base_x + OFF_BACK3[1], base_y + OFF_BACK3[2]>>
        p4 == <<base_x + OFF_FRONT[1], base_y + OFF_FRONT[2]>>
        right == Max({p1[1], p2[1], p3[1], p4[1]}) + CARD_W
        bottom == Max({p1[2], p2[2], p3[2], p4[2]}) + CARD_H
        crop_w == CROP_BOX[3] - CROP_BOX[1]
        crop_h == CROP_BOX[4] - CROP_BOX[2]
        panel_x == right + RIGHT_GAP
        panel_y == OUTER_MARGIN
    IN [p1 |-> p1, p2 |-> p2, p3 |-> p3, p4 |-> p4,
        left |-> Min({p1[1], p2[1], p3[1], p4[1]}), right |-> right,
        top |-> Min({p1[2], p2[2], p3[2], p4[2]}), bottom |-> bottom,
        crop_w |-> crop_w, crop_h |-> crop_h, panel_x |-> panel_x, panel_y |-> panel_y,
        canvas_w |-> panel_x + crop_w + OUTER_MARGIN,
        canvas_h |-> Max({bottom + OUTER_MARGIN, panel_y + crop_h + OUTER_MARGIN})]

\* paste_with_shadow as it would be with the card composited before its shadow
paste_with_shadow_CardFirst(card_img, xy) ==
    << [kind |-> "card", src |-> card_img.src, xy |-> xy, wh |-> card_img.size],
       [kind |-> "shadow", src |-> card_img.src,
        xy |-> <<xy[1] + SHADOW_OFFSET[1], xy[2] + SHADOW_OFFSET[2]>>, wh |-> <<CARD_W, CARD_H>>] >>

\* paste_with_shadow: the shadow, then the card
paste_with_shadow(card_img, xy) ==
    << [kind |-> "shadow", src |-> card_img.src,
        xy |-> <<xy[1] + SHADOW_OFFSET[1], xy[2] + SHADOW_OFFSET[2]>>, wh |-> <<CARD_W, CARD_H>>],
       [kind |-> "card", src |-> card_img.src, xy |-> xy, wh |-> card_img.size] >>

\* what compose_treasure composites onto the canvas, in paint order
PaintSequence(back1, back2, back3, back_for_crop, front) ==
    LET mat_pad == 16
        mat_wh == <<Layout.crop_w + mat_pad * 2, Layout.crop_h + mat_pad * 2>>
        panel == <<Layout.panel_x, Layout.panel_y>>
    IN paste_with_shadow(load_card(back1), Layout.p1) \o
       paste_with_shadow(load_card(back2), Layout.p2) \o
       paste_with_shadow(load_card(back3), Layout.p3) \o
       paste_with_shadow(load_card(front), Layout.p4) \o
       << [kind |-> "shadow", src |-> back_for_crop,
           xy |-> <<panel[1] + SHADOW_OFFSET[1], panel[2] + SHADOW_OFFSET[2]>>, wh |-> mat_wh],
          [kind |-> "mat", src |-> back_for_crop, xy |-> panel, wh |-> mat_wh],
          [kind |-> "crop", src |-> back_for_crop,
           xy |-> <<panel[1] + mat_pad, panel[2] + mat_pad>>,
           wh |-> <<Layout.crop_w, Layout.crop_h>>] >>

\* the files load_card is called on, in the order of the calls
LoadOrder(back1, back2, back3, back_for_crop, front) ==
    <<back1, back2, back3, front, back_for_crop>>

\* load_card raises for a file that cannot be decoded
ComposeRaises(back1, back2, back3, back_for_crop, front) ==
    \E p \in Range(LoadOrder(back1, back2, back3, back_for_crop, front)) :
        NameOf(p) \in Unreadable

\* the canvas: the files it was composed from, its size and the label on the front
compose_treasure(back1, back2, back3, back_for_crop, front) ==
    [back1 |-> back1, back2 |-> back2, back3 |-> back3,
     back_for_crop |-> back_for_crop, front |-> front,
     size |-> <<Layout.canvas_w, Layout.canvas_h>>,
     label |-> IF NumberOf(front) # None
               THEN "#" \o ToString(NumberOf(front)) \o " Front"
               ELSE ""]

\* the elements painted on a canvas
Painted(canvas) ==
    PaintSequence(canvas.back1, canvas.back2, canvas.back3, canvas.back_for_crop, canvas.front)

----------------------------------------------------------------------------
(* RandomFrame                                                             *)

showerror(title, message) == [box |-> "showerror", title |-> title, message |-> message]
showwarning(title, message) == [box |-> "showwarning", title |-> title, message |-> message]

\* random.sample(population, k): the values at k distinct positions of the list,
\* so a value is drawn at most as often as the population holds it
random_sample(population, k) ==
    LET n == Len(population)
        positions == {q \in [1..k -> 1..n] : \A i, j \in 1..k : q[i] = q[j] => i = j}
        RECURSIVE values(_, _)
        values(q, m) == IF m = 0 THEN <<>> ELSE Append(values(q, m - 1), population[q[m]])
    IN {values(q, k) : q \in positions}

\* pick_random: the draws it can return, as <<back_choices, front_choice>>
pick_random(rt) ==
    {<<b, f>> : b \in random_sample(rt.backs, 4), f \in Range(rt.fronts)}

\* the exception pick_random raises, "" if it raises none
PickRandomError(rt) ==
    IF Len(rt.backs) < 4 THEN "Sample larger than population or is negative"
    ELSE IF Len(rt.fronts) = 0 THEN "Cannot choose from an empty sequence"
    ELSE ""

\* render_for_display / fit_window_to_image: the image label shows the canvas
RenderForDisplay(tab, im) == [tab EXCEPT !.panel = "image", !.tk_image = im]

\* generate as it would be if the labels were recorded before the composition
GenerateWith_AssignFirst(rt, draw) ==
    LET b == draw[1]
        front == draw[2]
        paths == [Back1 |-> b[1], Back2 |-> b[2], Back3 |-> b[3],
                  Front |-> front, CroppedBack |-> b[4]]
        files == [Back1 |-> NameOf(b[1]), Back2 |-> NameOf(b[2]), Back3 |-> NameOf(b[3]),
                  Front |-> NameOf(front), CroppedBack |-> NameOf(b[4])]
    IN IF ComposeRaises(b[1], b[2], b[3], b[4], front)
       THEN [tab |-> [rt EXCEPT !.current_files = files, !.current_paths = paths],
             dialogs |-> <<showerror("Error generating treasure", "cannot identify image file")>>]
       ELSE LET im == compose_treasure(b[1], b[2], b[3], b[4], front)
            IN [tab |-> RenderForDisplay([rt EXCEPT !.fullres_image = im,
                                                    !.current_files = files,
                                                    !.current_paths = paths,
                                                    !.has_fit_once = TRUE], im),
                dialogs |-> <<>>]

\* generate with a given draw
GenerateWith(rt, draw) ==
    LET b == draw[1]
        front == draw[2]
    IN IF ComposeRaises(b[1], b[2], b[3], b[4], front)
       THEN [tab |-> rt,
             dialogs |-> <<showerror("Error generating treasure", "cannot identify image file")>>]
       ELSE LET im == compose_treasure(b[1], b[2], b[3], b[4], front)
                paths == [Back1 |-> b[1], Back2 |-> b[2], Back3 |-> b[3],
                          Front |-> front, CroppedBack |-> b[4]]
                files == [Back1 |-> NameOf(b[1]), Back2 |-> NameOf(b[2]), Back3 |-> NameOf(b[3]),
                          Front |-> NameOf(front), CroppedBack |-> NameOf(b[4])]
            IN [tab |-> RenderForDisplay([rt EXCEPT !.fullres_image = im,
                                                    !.current_files = files,
                                                    !.current_paths = paths,
                                                    !.has_fit_once = TRUE], im),
                dialogs |-> <<>>]

\* generate as it would be if the backs were drawn by reordering the list in place
generate_ShuffleInPlace(rt) ==
    IF PickRandomError(rt) # ""
    THEN {[tab |-> rt, dialogs |-> <<showerror("Error generating treasure", PickRandomError(rt))>>]}
    ELSE {[GenerateWith(rt, draw) EXCEPT
               !.tab.backs = [i \in 1..Len(rt.backs) |-> rt.backs[Len(rt.backs) + 1 - i]]] :
          draw \in pick_random(rt)}

\* generate: every outcome, as the tab afterwards and the dialogs shown
generate(rt) ==
    IF PickRandomError(rt) # ""
    THEN {[tab |-> rt, dialogs |-> <<showerror("Error generating treasure", PickRandomError(rt))>>]}
    ELSE {GenerateWith(rt, draw) : draw \in pick_random(rt)}

\* show_empty_state: the panel holds the prompt and the Select Folder button
show_empty_state(tab) == [tab EXCEPT !.panel = "prompt"]

Sufficient(fronts, backs) == Len(backs) >= 4 /\ Len(fronts) >= 1

\* RandomFrame.__init__, the directory being enumerated in `order'
RandomFrame_init(dir, order) ==
    With(scan_cards(dir, order), LAMBDA lists :
        With([fronts |-> lists.fronts, backs |-> lists.backs,
              fullres_image |-> NoneObject, tk_image |-> NoneObject,
              current_files |-> <<>>, current_paths |-> <<>>,
              resize_job |-> None, has_fit_once |-> FALSE, folder |-> dir,
              btn_new |-> "normal", btn_edit |-> "normal", panel |-> "blank"],
             LAMBDA rt :
                 IF ~Sufficient(rt.fronts, rt.backs)
                 THEN {[tab |-> show_empty_state([rt EXCEPT !.btn_new = "disabled",
                                                            !.btn_edit = "disabled"]),
                        dialogs |-> <<>>]}
                 ELSE generate(rt)))

----------------------------------------------------------------------------
(* CustomFrame                                                             *)

Whitespace == {" ", "\n"}

RECURSIVE LStrip(_)
LStrip(s) == IF Len(s) > 0 /\ Ch(s, 1) \in Whitespace THEN LStrip(Tail(s)) ELSE s

RECURSIVE RStrip(_)
RStrip(s) == IF Len(s) > 0 /\ Ch(s, Len(s)) \in Whitespace
             THEN RStrip(SubSeq(s, 1, Len(s) - 1)) ELSE s

\* str.strip()
Strip(s) == RStrip(LStrip(s))

AllDigits(s) == Len(s) > 0 /\ \A i \in 1..Len(s) : IsDigit(Ch(s, i))

\* int(s): an optional sign and decimal digits, ValueError otherwise
IntOf(s) ==
    IF AllDigits(s) THEN [ok |-> TRUE, n |-> ParseInt(s)]
    ELSE IF Len(s) > 1 /\ Ch(s, 1) = "-" /\ AllDigits(Tail(s)) THEN [ok |-> TRUE, n |-> 0 - ParseInt(Tail(s))]
    ELSE IF Len(s) > 1 /\ Ch(s, 1) = "+" /\ AllDigits(Tail(s)) THEN [ok |-> TRUE, n |-> ParseInt(Tail(s))]
    ELSE [ok |-> FALSE, n |-> 0]

\* _parse_item without the range test
_parse_item_NoRange(s) ==
    LET v == IntOf(Strip(s))
    IN IF ~v.ok THEN None ELSE v.n

_parse_item(s) ==
    LET v == IntOf(Strip(s))
    IN IF ~v.ok THEN None
       ELSE IF 1 <= v.n /\ v.n <= 100 THEN v.n ELSE None

_front_card_num_for_item(item) == 21 + (item - 1) * 2

\* dict.get
Get(index, n) == IF n \in DOMAIN index THEN index[n] ELSE NoPath

\* Python's `a or b' on two optional paths
Or(a, b) == IF a # NoPath THEN a ELSE b

\* _path_for_item that always prefers the back
_path_for_item_BackFirst(index, item, prefer_front) ==
    LET front == _front_card_num_for_item(item)
        back == front + 1
    IN Or(Get(index, back), Get(index, front))

_path_for_item(index, item, prefer_front) ==
    LET front == _front_card_num_for_item(item)
        back == front + 1
    IN IF prefer_front
       THEN Or(Get(index, front), Get(index, back))
       ELSE Or(Get(index, back), Get(index, front))

Items == [i \in 1..100 |-> i]

_available_items_any(index) ==
    SelectSeq(Items, LAMBDA item : _path_for_item(index, item, TRUE) # NoPath
                                   \/ _path_for_item(index, item, FALSE) # NoPath)

_available_items_with_back(index) ==
    SelectSeq(Items, LAMBDA item : _path_for_item(index, item, FALSE) # NoPath)

MinOf(a, b) == IF a <= b THEN a ELSE b

\* _init_defaults: the texts of the five entries
_init_defaults(index) ==
    With(_available_items_any(index), LAMBDA any_items :
    With(_available_items_with_back(index), LAMBDA back_items :
        LET n == Len(back_items)
            front_var == ToString(IF Len(any_items) > 0 THEN any_items[1] ELSE 1)
        IN IF n >= 3
           THEN [front_var |-> front_var, b1_var |-> ToString(back_items[1]),
                 b2_var |-> ToString(back_items[2]), b3_var |-> ToString(back_items[3]),
                 bc_var |-> ToString(back_items[1])]
           ELSE IF n > 0
           THEN [front_var |-> front_var, b1_var |-> ToString(back_items[1]),
                 b2_var |-> ToString(back_items[MinOf(1, n - 1) + 1]),
                 b3_var |-> ToString(back_items[MinOf(2, n - 1) + 1]),
                 bc_var |-> ToString(back_items[1])]
           ELSE [front_var |-> front_var, b1_var |-> "1", b2_var |-> "2", b3_var |-> "3",
                 bc_var |-> "1"]))

\* _show_empty_state
_show_empty_state(tab) == [tab EXCEPT !.panel = "prompt"]

\* the list `labels' of render_custom: entry name, entry text, prefer_front
Labels(ct) ==
    << <<"Front", ct.front_var, TRUE>>,
       <<"Back #1", ct.b1_var, FALSE>>,
       <<"Back #2", ct.b2_var, FALSE>>,
       <<"Back #3", ct.b3_var, FALSE>>,
       <<"Plot Hook", ct.bc_var, FALSE>> >>

\* one iteration of the loop of render_custom on the accumulated
\* (resolved, missing, lookups)
LoopBody(index, label, acc) ==
    LET name == label[1]
        txt == label[2]
        prefer_front == label[3]
        item == _parse_item(txt)
    IN IF item = None
       THEN [acc EXCEPT !.missing = Append(@, [entry |-> name, kind |-> "invalid", txt |-> txt,
                                               item |-> None, side |-> ""])]
       ELSE LET path == _path_for_item(index, item, prefer_front)
                looked == [acc EXCEPT !.lookups = Append(@, <<name, item, prefer_front>>)]
            IN IF path = NoPath
               THEN [looked EXCEPT !.missing =
                        Append(@, [entry |-> name, kind |-> "missing", txt |-> txt, item |-> item,
                                   side |-> IF prefer_front THEN "front" ELSE "back"])]
               ELSE [looked EXCEPT !.resolved = Append(@, <<name, item, path>>)]

RECURSIVE Loop(_, _, _, _)
\* the loop over labels[k..], left at the first failure when stopAtFirst
Loop(index, labels, k, stopAtFirst) ==
    IF k = 0 THEN [resolved |-> <<>>, missing |-> <<>>, lookups |-> <<>>]
    ELSE LET before == Loop(index, labels, k - 1, stopAtFirst)
         IN IF stopAtFirst /\ Len(before.missing) > 0 THEN before
            ELSE LoopBody(index, labels[k], before)

\* the path resolved for an entry name
ResolvedPath(resolved, name) ==
    (CHOOSE r \in Range(resolved) : r[1] = name)[3]

\* render_custom: the tab afterwards, the dialogs shown, what was looked up and
\* resolved, and whether compose_treasure's exception left the method
RenderCustomWith(ct, stopAtFirst) ==
    With(Loop(ct.index, Labels(ct), 5, stopAtFirst), LAMBDA done :
        LET trace == [lookups |-> done.lookups, resolved |-> done.resolved,
                      missing |-> done.missing, raised |-> FALSE]
        IN IF Len(done.missing) > 0
           THEN [tab |-> IF ct.fullres_image = NoneObject THEN _show_empty_state(ct) ELSE ct,
                 dialogs |-> <<showwarning("Missing cards", done.missing)>>,
                 trace |-> trace]
           ELSE LET back1 == ResolvedPath(done.resolved, "Back #1")
                    back2 == ResolvedPath(done.resolved, "Back #2")
                    back3 == ResolvedPath(done.resolved, "Back #3")
                    back_crop == ResolvedPath(done.resolved, "Plot Hook")
                    front == ResolvedPath(done.resolved, "Front")
                IN IF ComposeRaises(back1, back2, back3, back_crop, front)
                   THEN [tab |-> ct, dialogs |-> <<>>, trace |-> [trace EXCEPT !.raised = TRUE]]
                   ELSE LET im == compose_treasure(back1, back2, back3, back_crop, front)
                        IN [tab |-> RenderForDisplay([ct EXCEPT !.fullres_image = im,
                                                                !.has_fit_once = TRUE], im),
                            dialogs |-> <<>>, trace |-> trace])

\* render_custom giving up at the first entry that fails
render_custom_StopAtFirst(ct) == RenderCustomWith(ct, TRUE)

render_custom(ct) == RenderCustomWith(ct, FALSE)

NoRender == [lookups |-> <<>>, resolved |-> <<>>, missing |-> <<>>, raised |-> FALSE]

\* _try_initial_render: an exception of render_custom is caught here
_try_initial_render(ct) ==
    IF Len(_available_items_with_back(ct.index)) > 0 /\ Len(_available_items_any(ct.index)) > 0
    THEN With(render_custom(ct), LAMBDA r :
             IF r.trace.raised
             THEN [tab |-> _show_empty_state(r.tab), dialogs |-> r.dialogs,
                   trace |-> [r.trace EXCEPT !.raised = FALSE]]
             ELSE r)
    ELSE [tab |-> _show_empty_state(ct), dialogs |-> <<>>, trace |-> NoRender]

\* CustomFrame.__init__
CustomFrame_init(dir, order) ==
    With(index_all_cards(dir, order), LAMBDA index :
    With(_init_defaults(index), LAMBDA defaults :
    With([folder |-> dir, index |-> index, fullres_image |-> NoneObject,
          tk_image |-> NoneObject, resize_job |-> None,
          has_fit_once |-> FALSE, panel |-> "blank",
          front_var |-> defaults.front_var, b1_var |-> defaults.b1_var,
          b2_var |-> defaults.b2_var, b3_var |-> defaults.b3_var,
          bc_var |-> defaults.bc_var],
         LAMBDA ct : _try_initial_render(ct))))

\* CustomFrame.set_folder
CustomFrame_set_folder(ct, dir, order) ==
    With([ct EXCEPT !.folder = dir, !.index = index_all_cards(dir, order)],
         LAMBDA tab : _try_initial_render(tab))

----------------------------------------------------------------------------
(* BrowserFrame                                                            *)

\* SECTIONS: the bounds of the five sections, indexed from 0 as in the code
SECTIONS == [i \in 0..4 |-> <<<<1, 12>>, <<13, 14>>, <<15, 16>>, <<17, 20>>, <<21, 220>>>>[i + 1]]

_section_bounds(idx) == SECTIONS[idx]

\* the first card number of the section that is in the index, None without one
_first_available_in_section(index, idx) ==
    LET a == _section_bounds(idx)[1]
        b == _section_bounds(idx)[2]
        present == {n \in DOMAIN index : a <= n /\ n <= b}
    IN IF present = {} THEN None ELSE Min(present)

\* _item_num_for_card without the + 1
_item_num_for_card_ZeroBased(n) ==
    IF 21 <= n /\ n <= 220
    THEN LET odd == IF n % 2 = 1 THEN n ELSE n - 1
         IN (odd - 21) \div 2
    ELSE None

_item_num_for_card(n) ==
    IF 21 <= n /\ n <= 220
    THEN LET odd == IF n % 2 = 1 THEN n ELSE n - 1
         IN ((odd - 21) \div 2) + 1
    ELSE None

\* BrowserFrame._card_num_for_item: the front if it is in the index, else the back
_card_num_for_item(index, item) ==
    LET front == 21 + (item - 1) * 2
        back == front + 1
    IN IF front \in DOMAIN index THEN front
       ELSE IF back \in DOMAIN index THEN back
       ELSE None

\* _load_rgba_card_cached raises for a file that cannot be decoded
SingleCardRaises(path) == NameOf(path) \in Unreadable

\* _compose_single_card: the card on a canvas with the outer margin around it
_compose_single_card(path, current_num) ==
    [card |-> path,
     size |-> <<CARD_W + OUTER_MARGIN * 2, CARD_H + OUTER_MARGIN * 2>>,
     label |-> "#" \o ToString(current_num) \o
               (IF current_num % 2 = 1 THEN " Front" ELSE " Back")]

\* _render_current: the tab afterwards and whether an exception left the method
_render_current(bt) ==
    With(Get(bt.index, bt.current_num), LAMBDA p :
        IF p = NoPath
        THEN [tab |-> [bt EXCEPT !.panel = "prompt", !.status = ""], raised |-> FALSE]
        ELSE IF SingleCardRaises(p)
        THEN [tab |-> bt, raised |-> TRUE]
        ELSE LET im == _compose_single_card(p, bt.current_num)
                 pair == IF bt.current_num % 2 = 1 THEN bt.current_num + 1
                         ELSE bt.current_num - 1
                 item_no == _item_num_for_card(bt.current_num)
             IN [tab |-> [bt EXCEPT !.last_pillow = im, !.tk_image = im, !.panel = "image",
                                    !.status = "Card #" \o ToString(bt.current_num) \o
                                               (IF bt.current_num % 2 = 1 THEN " Front"
                                                ELSE " Back") \o " - " \o NameOf(p),
                                    !.nav_enabled = Cardinality(DOMAIN bt.index) > 1,
                                    !.flip_enabled = (1 <= pair /\ pair <= 220
                                                      /\ pair \in DOMAIN bt.index),
                                    !.jump_var = IF item_no # None THEN ToString(item_no)
                                                 ELSE ""],
                 raised |-> FALSE])

\* BrowserFrame.__init__
BrowserFrame_init(dir, order) ==
    With(index_all_cards(dir, order), LAMBDA index :
    With(_first_available_in_section(index, 4), LAMBDA first :
        _render_current([folder |-> dir, index |-> index, current_section |-> 4,
                         current_num |-> IF first # None THEN first ELSE 21,
                         tk_image |-> NoneObject, last_pillow |-> NoneObject,
                         resize_job |-> None, panel |-> "blank", status |-> "",
                         nav_enabled |-> TRUE, flip_enabled |-> TRUE, jump_var |-> ""])))

\* BrowserFrame.set_folder
BrowserFrame_set_folder(bt, dir, order) ==
    With(index_all_cards(dir, order), LAMBDA index :
    With(_first_available_in_section(index, bt.current_section), LAMBDA n :
        _render_current([bt EXCEPT !.folder = dir, !.index = index,
                                   !.current_num = IF n # None THEN n ELSE @])))

\* max(1, min(100, item))
Clamp(item) == IF item < 1 THEN 1 ELSE IF item > 100 THEN 100 ELSE item

\* the loop of _on_jump as it would be if it looked downwards first
NearestItemCard_DownFirst(index, item) ==
    LET found(delta) == \/ item + delta <= 100 /\ _card_num_for_item(index, item + delta) # None
                        \/ item - delta >= 1 /\ _card_num_for_item(index, item - delta) # None
        deltas == {d \in 1..99 : found(d)}
    IN IF deltas = {} THEN None
       ELSE LET delta == Min(deltas)
            IN IF item - delta >= 1 /\ _card_num_for_item(index, item - delta) # None
               THEN _card_num_for_item(index, item - delta)
               ELSE _card_num_for_item(index, item + delta)

\* the loop of _on_jump over delta: the nearest item with a card, upwards first
NearestItemCard(index, item) ==
    LET found(delta) == \/ item + delta <= 100 /\ _card_num_for_item(index, item + delta) # None
                        \/ item - delta >= 1 /\ _card_num_for_item(index, item - delta) # None
        deltas == {d \in 1..99 : found(d)}
    IN IF deltas = {} THEN None
       ELSE LET delta == Min(deltas)
            IN IF item + delta <= 100 /\ _card_num_for_item(index, item + delta) # None
               THEN _card_num_for_item(index, item + delta)
               ELSE _card_num_for_item(index, item - delta)

\* _on_jump without the clamp
_on_jump_NoClamp(bt) ==
    With(IntOf(Strip(bt.jump_var)), LAMBDA v :
        IF ~v.ok THEN [tab |-> bt, raised |-> FALSE]
        ELSE With(IF _card_num_for_item(bt.index, v.n) # None
                  THEN _card_num_for_item(bt.index, v.n)
                  ELSE NearestItemCard(bt.index, v.n), LAMBDA n :
                 IF n = None THEN [tab |-> bt, raised |-> FALSE]
                 ELSE _render_current([bt EXCEPT !.current_num = n, !.current_section = 4])))

\* _on_jump: the entry holds the text the user typed
_on_jump(bt) ==
    With(IntOf(Strip(bt.jump_var)), LAMBDA v :
        IF ~v.ok THEN [tab |-> bt, raised |-> FALSE]
        ELSE With(IF _card_num_for_item(bt.index, Clamp(v.n)) # None
                  THEN _card_num_for_item(bt.index, Clamp(v.n))
                  ELSE NearestItemCard(bt.index, Clamp(v.n)), LAMBDA n :
                 IF n = None THEN [tab |-> bt, raised |-> FALSE]
                 ELSE _render_current([bt EXCEPT !.current_num = n, !.current_section = 4])))

\* _sync_section_to_number: the selector moves to the section that holds n
_sync_section_to_number(bt, n) ==
    LET holding == {i \in DOMAIN SECTIONS :
                       _section_bounds(i)[1] <= n /\ n <= _section_bounds(i)[2]}
    IN IF holding = {} THEN bt ELSE [bt EXCEPT !.current_section = Min(holding)]

\* the end of _prev, _next and _flip once a card n is found
GoTo(bt, n) == _render_current(_sync_section_to_number([bt EXCEPT !.current_num = n], n))

\* _next as it would be without the wrap to the lowest card
_next_NoWrap(bt) ==
    IF DOMAIN bt.index = {} THEN [tab |-> bt, raised |-> FALSE]
    ELSE LET up == {n \in DOMAIN bt.index : bt.current_num < n /\ n <= 220}
         IN IF up # {} THEN GoTo(bt, Min(up))
            ELSE [tab |-> bt, raised |-> FALSE]

\* _next: the next card upwards, else the lowest card below the current one
_next(bt) ==
    IF DOMAIN bt.index = {} THEN [tab |-> bt, raised |-> FALSE]
    ELSE LET up == {n \in DOMAIN bt.index : bt.current_num < n /\ n <= 220}
             wrap == {n \in DOMAIN bt.index : 1 <= n /\ n < bt.current_num}
         IN IF up # {} THEN GoTo(bt, Min(up))
            ELSE IF wrap # {} THEN GoTo(bt, Min(wrap))
            ELSE [tab |-> bt, raised |-> FALSE]

\* _prev: the next card downwards, else the highest card above the current one
_prev(bt) ==
    IF DOMAIN bt.index = {} THEN [tab |-> bt, raised |-> FALSE]
    ELSE LET down == {n \in DOMAIN bt.index : 1 <= n /\ n < bt.current_num}
             wrap == {n \in DOMAIN bt.index : bt.current_num < n /\ n <= 220}
         IN IF down # {} THEN GoTo(bt, Max(down))
            ELSE IF wrap # {} THEN GoTo(bt, Max(wrap))
            ELSE [tab |-> bt, raised |-> FALSE]

\* _flip: the other face of the pair, if it is in the index
_flip(bt) ==
    LET pair == IF bt.current_num % 2 = 1 THEN bt.current_num + 1 ELSE bt.current_num - 1
    IN IF 1 <= pair /\ pair <= 220 /\ pair \in DOMAIN bt.index
       THEN GoTo(bt, pair)
       ELSE [tab |-> bt, raised |-> FALSE]

\* _on_section_change: the selector shows section idx
_on_section_change(bt, idx) ==
    With(_first_available_in_section(bt.index, idx), LAMBDA n :
        _render_current([bt EXCEPT !.current_section = idx,
                                   !.current_num = IF n # None THEN n ELSE @]))

\* _kb_home: the first card of the section
_kb_home(bt) ==
    With(_first_available_in_section(bt.index, bt.current_section), LAMBDA n :
        IF n # None THEN _render_current([bt EXCEPT !.current_num = n])
        ELSE [tab |-> bt, raised |-> FALSE])

\* _kb_end: the last card of the section
_kb_end(bt) ==
    LET a == _section_bounds(bt.current_section)[1]
        b == _section_bounds(bt.current_section)[2]
        present == {n \in DOMAIN bt.index : a <= n /\ n <= b}
    IN IF present # {} THEN _render_current([bt EXCEPT !.current_num = Max(present)])
       ELSE [tab |-> bt, raised |-> FALSE]

----------------------------------------------------------------------------
(* TreasureApp                                                             *)

\* TreasureApp.set_folder: every outcome; the Random tab rescans and draws or shows
\* the prompt, then the Browser tab rebuilds its index and renders its card, then the
\* Custom tab rebuilds its index and renders its entries; an exception of the Browser
\* tab leaves the method before the Custom tab is reached
TreasureApp_set_folder(rt, bt, ct, dir) ==
    LET randomOutcomes(order) ==
            With(scan_cards(dir, order), LAMBDA lists :
            With([rt EXCEPT !.folder = dir, !.fronts = lists.fronts, !.backs = lists.backs],
                 LAMBDA scanned :
                     IF Sufficient(scanned.fronts, scanned.backs)
                     THEN UNION {generate(enabled) :
                                    enabled \in {[scanned EXCEPT !.btn_new = "normal",
                                                                  !.btn_edit = "normal",
                                                                  !.has_fit_once = FALSE]}}
                     ELSE {[tab |-> show_empty_state([scanned EXCEPT !.btn_new = "disabled",
                                                                     !.btn_edit = "disabled"]),
                            dialogs |-> <<>>]}))
    IN With({BrowserFrame_set_folder(bt, dir, o) : o \in AppListings[dir]}, LAMBDA browsers :
       With({CustomFrame_set_folder(ct, dir, o) : o \in AppListings[dir]}, LAMBDA customs :
           {IF b.raised
            THEN [folder |-> dir, random_tab |-> r.tab, browser_tab |-> b.tab,
                  custom_tab |-> ct, dialogs |-> r.dialogs, last_render |-> NoRender,
                  escaped |-> TRUE]
            ELSE [folder |-> dir, random_tab |-> r.tab, browser_tab |-> b.tab,
                  custom_tab |-> c.tab, dialogs |-> r.dialogs \o c.dialogs,
                  last_render |-> c.trace, escaped |-> FALSE] :
                r \in UNION {randomOutcomes(o) : o \in AppListings[dir]},
                b \in browsers, c \in customs}))

----------------------------------------------------------------------------
(* Specification of extract_trailing_number as a function of the name      *)

MaxTokens == 3

\* no application is running in the specifications of the functions
NoApp ==
    /\ folder = 0
    /\ random_tab = NoneObject
    /\ custom_tab = NoneObject
    /\ browser_tab = NoneObject
    /\ escaped = FALSE
    /\ after_queue = {}
    /\ dialogs = <<>>
    /\ last_render = NoneObject
    /\ last_op = ""
    /\ edits = 0

\* pieces file names are built from: digits, separators, suffixes, other text
Tokens == {"0", "2", " ", "_", "-", "a", "B", "front", "x"}
Extensions == {".jpg", ".jpeg", ".JpEg", ".png", ".jpg.bak", ""}

RECURSIVE Concat(_)
Concat(ts) == IF Len(ts) = 0 THEN "" ELSE Head(ts) \o Concat(Tail(ts))

Stems == {Concat(ts) : ts \in UNION {[1..n -> Tokens] : n \in 0..MaxTokens}}

InitExtract ==
    /\ caseSensitive = TRUE
    /\ disk = <<>>
    /\ \E stem \in Stems : \E e \in Extensions : arg = stem \o e
    /\ ret = [done |-> FALSE]
    /\ NoApp

CallExtract ==
    /\ ~ret.done
    /\ ret' = [done |-> TRUE, value |-> extract_trailing_number(arg)]
    /\ UNCHANGED <<caseSensitive, disk, arg>>
    /\ UNCHANGED appVars

NextExtract == CallExtract

SpecExtract == InitExtract /\ [][NextExtract]_vars

\* the name ends in .jpg or .jpeg, in any mix of case
HasJpgExtension(name) ==
    \/ (Len(name) >= 4 /\ LowerStr(SubSeq(name, Len(name) - 3, Len(name))) = ".jpg")
    \/ (Len(name) >= 5 /\ LowerStr(SubSeq(name, Len(name) - 4, Len(name))) = ".jpeg")

\* the name without that extension
StemOf(name) ==
    IF Len(name) >= 4 /\ LowerStr(SubSeq(name, Len(name) - 3, Len(name))) = ".jpg"
    THEN SubSeq(name, 1, Len(name) - 4)
    ELSE SubSeq(name, 1, Len(name) - 5)

\* the last digit run of st as <<first, last>>, <<0, 0>> if st has no digit
LastDigitRun(st) ==
    LET ds == {i \in 1..Len(st) : IsDigit(Ch(st, i))}
    IN IF ds = {} THEN <<0, 0>>
       ELSE <<Min({i \in ds : \A k \in i..Max(ds) : k \in ds}), Max(ds)>>

\* t is separators followed by at most one of front/back/a/b
IsTrailer(t) ==
    \E k \in 0..Len(t) :
        /\ \A i \in 1..k : Ch(t, i) \in {" ", "_", "-"}
        /\ LowerStr(SubSeq(t, k + 1, Len(t))) \in (Suffixes \cup {""})

\* what the docstring promises for a name
ExpectedNumber(name) ==
    IF ~HasJpgExtension(name) THEN None
    ELSE LET st == StemOf(name)
             run == LastDigitRun(st)
         IN IF run[2] = 0 THEN None
            ELSE IF IsTrailer(SubSeq(st, run[2] + 1, Len(st)))
                 THEN ParseInt(SubSeq(st, run[1], run[2]))
                 ELSE None

\* C5: extract_trailing_number returns the whole digit run that sits immediately
\* before the .jpg/.jpeg extension, else the digit run followed only by separators
\* and at most one suffix front/back/a/b before the extension, else None; a number
\* elsewhere in the name is never returned.
C5_TwoPassExtraction == ret.done => ret.value = ExpectedNumber(arg)

\* the relaxed pass decided: no digit touches the extension, the number is returned
C5_Witness == ret.done /\ arg = "2_front.jpg" /\ ret.value = 2

----------------------------------------------------------------------------
(* Specification of the two scans as functions of the directory, the       *)
(* platform and the enumeration order                                      *)

MaxFiles == 2

\* a directory a case-insensitive filesystem can hold
NoCaseClash(files) == \A x, y \in files : LowerStr(x) = LowerStr(y) => x = y

InitScan ==
    /\ caseSensitive \in BOOLEAN
    /\ \E files \in SUBSET ScanNames :
          /\ Cardinality(files) <= MaxFiles
          /\ caseSensitive \/ NoCaseClash(files)
          /\ disk = <<files>>
    /\ arg = [dir |-> 1]
    /\ ret = [fn |-> "none"]
    /\ NoApp

CallScanCards ==
    /\ \E order \in EnumOrders(arg.dir) :
          LET lists == scan_cards(arg.dir, order)
          IN ret' = [fn |-> "scan_cards", jpgs |-> Jpgs(arg.dir, order),
                     fronts |-> lists.fronts, backs |-> lists.backs]
    /\ UNCHANGED <<caseSensitive, disk, arg>>
    /\ UNCHANGED appVars

CallIndexAllCards ==
    /\ \E order \in EnumOrders(arg.dir) :
          ret' = [fn |-> "index_all_cards", jpgs |-> Jpgs(arg.dir, order),
                  chosen |-> index_all_cards(arg.dir, order)]
    /\ UNCHANGED <<caseSensitive, disk, arg>>
    /\ UNCHANGED appVars

NextScan == CallScanCards \/ CallIndexAllCards

SpecScan == InitScan /\ [][NextScan]_vars

\* C1: every enumerated file whose number N is in 21..220 is in the front list iff N
\* is odd and in the back list iff N is even; an enumerated file with N outside
\* 21..220 or without a number is in neither list.
C1_ParityClassification ==
    ret.fn = "scan_cards" =>
        /\ \A p \in Range(ret.jpgs) :
              LET N == ExpectedNumber(NameOf(p))
              IN IF N # None /\ 21 <= N /\ N <= 220
                 THEN /\ (p \in Range(ret.fronts)) <=> (N % 2 = 1)
                      /\ (p \in Range(ret.backs)) <=> (N % 2 = 0)
                 ELSE p \notin Range(ret.fronts) /\ p \notin Range(ret.backs)
        /\ Range(ret.fronts) \cup Range(ret.backs) \subseteq Range(ret.jpgs)

\* a scan that met the lowest front (21) and a number just below the range
C1_Witness ==
    /\ ret.fn = "scan_cards"
    /\ <<1, "a21.jpg">> \in Range(ret.fronts)
    /\ <<1, "c20.jpg">> \in Range(ret.jpgs)

\* C2: for every card number several files map to, the index holds the file whose
\* lower-cased name sorts first, and two scans of the unchanged directory return
\* the same mapping whatever the enumeration order.
C2_CollisionPolicy ==
    [][ret'.fn = "index_all_cards" =>
          /\ \A n \in DOMAIN ret'.chosen : \A p \in Range(ret'.jpgs) :
                ExpectedNumber(NameOf(p)) = n =>
                    ~StrLess(LowerStr(NameOf(p)), LowerStr(NameOf(ret'.chosen[n])))
          /\ ret.fn = "index_all_cards" => ret'.chosen = ret.chosen]_vars

\* C3: the front and back lists of scan_cards hold at most one file per card number,
\* the one whose lower-cased name sorts first.
C3_ScanCollisionPolicy ==
    ret.fn = "scan_cards" =>
        \A list \in {ret.fronts, ret.backs} : \A p, q \in Range(list) :
            ExpectedNumber(NameOf(p)) = ExpectedNumber(NameOf(q)) => p = q

\* C4: every file of the folder whose extension is .jpg or .jpeg in any mix of case
\* is enumerated by scan_cards and by index_all_cards, exactly once.
C4_CaseInsensitiveExtension ==
    ret.fn \in {"scan_cards", "index_all_cards"} =>
        \A name \in disk[arg.dir] :
            HasJpgExtension(name) => Count(ret.jpgs, <<arg.dir, name>>) = 1

----------------------------------------------------------------------------
(* The application: state after TreasureApp.__init__, and its operations   *)

MaxEdits == 1

\* what the user may type into an entry of the Custom tab
EntryTexts == {"2", "5", "6", "999", "0", "-3", "x", " 3 "}

\* TreasureApp.__init__ on directory dir: the Random tab, the Custom tab, the Browser
\* tab; there is no application when the constructor of the Browser tab raises
TreasureApp_init(dir) ==
    /\ disk = AppDisk
    /\ arg = 0
    /\ ret = NoneObject
    /\ folder = dir
    /\ \E b \in {BrowserFrame_init(dir, o) : o \in AppListings[dir]} :
       \E c \in {CustomFrame_init(dir, o) : o \in AppListings[dir]} :
       \E r \in UNION {RandomFrame_init(dir, o) : o \in AppListings[dir]} :
          /\ ~b.raised
          /\ browser_tab = b.tab
          /\ random_tab = r.tab
          /\ custom_tab = c.tab
          /\ dialogs = r.dialogs \o c.dialogs
          /\ last_render = c.trace
    /\ last_op = "init"
    /\ escaped = FALSE
    /\ after_queue = {}
    /\ edits = 0

\* the draw at construction took the backs and the front at the head of the lists
FirstDraw(rt) ==
    rt.fullres_image # NoneObject =>
        rt.fullres_image = compose_treasure(rt.backs[1], rt.backs[2], rt.backs[3], rt.backs[4],
                                            rt.fronts[1])

\* the whole application on a platform whose glob is case-sensitive
Init ==
    /\ caseSensitive = TRUE
    /\ \E dir \in Dirs : TreasureApp_init(dir)

\* on either platform
InitRandom ==
    /\ caseSensitive \in BOOLEAN
    /\ \E dir \in Dirs : TreasureApp_init(dir)

\* on either platform, one draw at construction
InitCustom ==
    /\ caseSensitive \in BOOLEAN
    /\ \E dir \in Dirs : TreasureApp_init(dir)
    /\ FirstDraw(random_tab)

\* RandomFrame.generate (New Treasure)
Generate ==
    /\ \E o \in generate(random_tab) :
          /\ random_tab' = o.tab
          /\ dialogs' = o.dialogs
    /\ last_op' = "generate"
    /\ escaped' = FALSE
    /\ UNCHANGED <<caseSensitive, disk, after_queue, arg, ret, folder, custom_tab, browser_tab, last_render,
                   edits>>

\* the jobs of a tab that wait in Tk's timer queue
PendingJobs(queue, t) == {j \in queue : j[1] = t}

\* after(80, self._do_resize): the queue with the new job, whose id Tk never gave before
\* to a job still waiting
after(queue, t) ==
    LET id == Min({i \in 1..(Cardinality(queue) + 1) : \A j \in queue : j[2] # i})
    IN [queue |-> queue \cup {<<t, id>>}, id |-> id]

\* after_cancel(id)
after_cancel(queue, t, id) == queue \ {<<t, id>>}

\* _on_resize as it would be without the after_cancel
_on_resize_NoCancel(queue, t, tab) ==
    LET scheduled == after(queue, t)
    IN [queue |-> scheduled.queue, tab |-> [tab EXCEPT !.resize_job = scheduled.id]]

\* _on_resize of a tab: the pending job is cancelled and a new one scheduled
_on_resize(queue, t, tab) ==
    LET cancelled == IF tab.resize_job # None THEN after_cancel(queue, t, tab.resize_job)
                     ELSE queue
        scheduled == after(cancelled, t)
    IN [queue |-> scheduled.queue, tab |-> [tab EXCEPT !.resize_job = scheduled.id]]

\* RandomFrame._do_resize and CustomFrame._do_resize
_do_resize(tab) ==
    LET idle == [tab EXCEPT !.resize_job = None]
    IN IF idle.fullres_image # NoneObject
       THEN RenderForDisplay(idle, idle.fullres_image)
       ELSE idle

\* BrowserFrame._do_resize
Browser_do_resize(bt) ==
    LET idle == [bt EXCEPT !.resize_job = None]
    IN IF idle.tk_image # NoneObject /\ idle.last_pillow # NoneObject
       THEN [idle EXCEPT !.tk_image = idle.last_pillow, !.panel = "image"]
       ELSE idle

\* RandomFrame._on_resize (<Configure>)
RandomOnResize ==
    /\ \E r \in {_on_resize(after_queue, "random", random_tab)} :
          /\ random_tab' = r.tab
          /\ after_queue' = r.queue
    /\ dialogs' = <<>>
    /\ last_op' = "_on_resize"
    /\ escaped' = FALSE
    /\ UNCHANGED <<caseSensitive, disk, arg, ret, folder, custom_tab, browser_tab, last_render,
                   edits>>

\* RandomFrame._do_resize: Tk runs a job of the tab that waits in the queue
RandomDoResize ==
    /\ \E j \in PendingJobs(after_queue, "random") : after_queue' = after_queue \ {j}
    /\ random_tab' = _do_resize(random_tab)
    /\ dialogs' = <<>>
    /\ last_op' = "_do_resize"
    /\ escaped' = FALSE
    /\ UNCHANGED <<caseSensitive, disk, arg, ret, folder, custom_tab, browser_tab, last_render,
                   edits>>

\* CustomFrame._on_resize (<Configure>)
CustomOnResize ==
    /\ \E r \in {_on_resize(after_queue, "custom", custom_tab)} :
          /\ custom_tab' = r.tab
          /\ after_queue' = r.queue
    /\ dialogs' = <<>>
    /\ last_op' = "_on_resize"
    /\ escaped' = FALSE
    /\ UNCHANGED <<caseSensitive, disk, arg, ret, folder, random_tab, browser_tab, last_render,
                   edits>>

\* CustomFrame._do_resize
CustomDoResize ==
    /\ \E j \in PendingJobs(after_queue, "custom") : after_queue' = after_queue \ {j}
    /\ custom_tab' = _do_resize(custom_tab)
    /\ dialogs' = <<>>
    /\ last_op' = "_do_resize"
    /\ escaped' = FALSE
    /\ UNCHANGED <<caseSensitive, disk, arg, ret, folder, random_tab, browser_tab, last_render,
                   edits>>

\* BrowserFrame._on_resize (<Configure>)
BrowserOnResize ==
    /\ \E r \in {_on_resize(after_queue, "browser", browser_tab)} :
          /\ browser_tab' = r.tab
          /\ after_queue' = r.queue
    /\ dialogs' = <<>>
    /\ last_op' = "_on_resize"
    /\ escaped' = FALSE
    /\ UNCHANGED <<caseSensitive, disk, arg, ret, folder, random_tab, custom_tab, last_render,
                   edits>>

\* BrowserFrame._do_resize
BrowserDoResize ==
    /\ \E j \in PendingJobs(after_queue, "browser") : after_queue' = after_queue \ {j}
    /\ browser_tab' = Browser_do_resize(browser_tab)
    /\ dialogs' = <<>>
    /\ last_op' = "_do_resize"
    /\ escaped' = FALSE
    /\ UNCHANGED <<caseSensitive, disk, arg, ret, folder, random_tab, custom_tab, last_render,
                   edits>>

\* TreasureApp.set_folder(dir)
SetFolder(dir) ==
    /\ \E o \in TreasureApp_set_folder(random_tab, browser_tab, custom_tab, dir) :
          /\ folder' = o.folder
          /\ random_tab' = o.random_tab
          /\ custom_tab' = o.custom_tab
          /\ browser_tab' = o.browser_tab
          /\ escaped' = o.escaped
          /\ dialogs' = o.dialogs
          /\ last_render' = o.last_render
    /\ last_op' = "set_folder"
    /\ UNCHANGED <<caseSensitive, disk, after_queue, arg, ret, edits>>

\* RandomFrame.select_folder_via_dialog, the user choosing `chosen' (0: cancel)
SelectFolderViaDialog(chosen) ==
    /\ last_op' = "select_folder_via_dialog"
    /\ UNCHANGED <<caseSensitive, disk, after_queue, arg, ret, edits>>
    /\ IF chosen = 0
       THEN /\ dialogs' = <<>>
            /\ escaped' = FALSE
            /\ UNCHANGED <<folder, random_tab, custom_tab, browser_tab, last_render>>
       ELSE \E enough \in {Sufficient(lists.fronts, lists.backs) :
                               lists \in {scan_cards(chosen, o) : o \in AppListings[chosen]}} :
                  IF enough
                  THEN \E o \in TreasureApp_set_folder(random_tab, browser_tab, custom_tab, chosen) :
                          /\ folder' = o.folder
                          /\ random_tab' = o.random_tab
                          /\ custom_tab' = o.custom_tab
                          /\ browser_tab' = o.browser_tab
                          /\ escaped' = o.escaped
                          /\ dialogs' = o.dialogs
                          /\ last_render' = o.last_render
                  ELSE /\ dialogs' = <<showwarning("Not enough images",
                                                   "The selected folder does not contain enough valid JPGs.")>>
                       /\ escaped' = FALSE
                       /\ UNCHANGED <<folder, random_tab, custom_tab, browser_tab, last_render>>

\* CustomFrame.render_custom (Render, Return in an entry)
RenderCustom ==
    /\ \E r \in {render_custom(custom_tab)} :
          /\ custom_tab' = r.tab
          /\ dialogs' = r.dialogs
          /\ last_render' = r.trace
          /\ escaped' = r.trace.raised
    /\ last_op' = "render_custom"
    /\ UNCHANGED <<caseSensitive, disk, after_queue, arg, ret, folder, random_tab, browser_tab, edits>>

EntryVars == {"front_var", "b1_var", "b2_var", "b3_var", "bc_var"}

\* the user types a text into one of the five entries
TypeEntry(var, txt) ==
    /\ edits < MaxEdits
    /\ edits' = edits + 1
    /\ custom_tab' = [custom_tab EXCEPT ![var] = txt]
    /\ dialogs' = <<>>
    /\ last_op' = "type"
    /\ escaped' = FALSE
    /\ UNCHANGED <<caseSensitive, disk, after_queue, arg, ret, folder, random_tab, browser_tab, last_render>>

\* RandomFrame._card_num_from_path: the card number of a path of the selection
_card_num_from_path(p) == IF p = NoPath THEN None ELSE NumberOf(p)

\* set_if of CustomFrame.set_items: the entry keeps its text when there is no value
set_if(txt, value) == IF value = None THEN txt ELSE ToString(value)

\* CustomFrame.set_items with render=True: the five entries, then render_custom
set_items(ct, front_item, passive, active, quirk, plot_hook) ==
    render_custom([ct EXCEPT !.front_var = set_if(@, front_item),
                             !.b1_var = set_if(@, passive),
                             !.b2_var = set_if(@, active),
                             !.b3_var = set_if(@, quirk),
                             !.bc_var = set_if(@, plot_hook)])

\* RandomFrame._cmd_edit_to_custom on a selection: the Custom tab afterwards, the
\* dialogs shown and what render_custom looked up; an exception of render_custom is
\* caught here
_cmd_edit_to_custom(rt, ct) ==
    LET get_item(key) == _item_num_for_card(_card_num_from_path(rt.current_paths[key]))
    IN With(set_items(ct, get_item("Front"), get_item("Back1"), get_item("Back2"),
                      get_item("Back3"), get_item("CroppedBack")),
            LAMBDA r : [r EXCEPT !.trace.raised = FALSE])

\* the Edit button of the Random tab
EditToCustom ==
    /\ random_tab.btn_edit = "normal"
    /\ IF random_tab.current_paths = <<>>
       THEN /\ dialogs' = <<>>
            /\ UNCHANGED <<custom_tab, last_render>>
       ELSE \E r \in {_cmd_edit_to_custom(random_tab, custom_tab)} :
               /\ custom_tab' = r.tab
               /\ dialogs' = r.dialogs
               /\ last_render' = r.trace
    /\ last_op' = "_cmd_edit_to_custom"
    /\ escaped' = FALSE
    /\ UNCHANGED <<caseSensitive, disk, after_queue, arg, ret, folder, random_tab, browser_tab, edits>>

\* BrowserFrame._prev (Prev, Left)
BrowserPrev ==
    /\ \E r \in {_prev(browser_tab)} :
          /\ browser_tab' = r.tab
          /\ escaped' = r.raised
    /\ dialogs' = <<>>
    /\ last_op' = "_prev"
    /\ UNCHANGED <<caseSensitive, disk, after_queue, arg, ret, folder, random_tab, custom_tab,
                   last_render, edits>>

\* BrowserFrame._next (Next, Right)
BrowserNext ==
    /\ \E r \in {_next(browser_tab)} :
          /\ browser_tab' = r.tab
          /\ escaped' = r.raised
    /\ dialogs' = <<>>
    /\ last_op' = "_next"
    /\ UNCHANGED <<caseSensitive, disk, after_queue, arg, ret, folder, random_tab, custom_tab,
                   last_render, edits>>

\* BrowserFrame._flip (Flip)
BrowserFlip ==
    /\ \E r \in {_flip(browser_tab)} :
          /\ browser_tab' = r.tab
          /\ escaped' = r.raised
    /\ dialogs' = <<>>
    /\ last_op' = "_flip"
    /\ UNCHANGED <<caseSensitive, disk, after_queue, arg, ret, folder, random_tab, custom_tab,
                   last_render, edits>>

\* BrowserFrame._kb_home (Home)
BrowserHome ==
    /\ \E r \in {_kb_home(browser_tab)} :
          /\ browser_tab' = r.tab
          /\ escaped' = r.raised
    /\ dialogs' = <<>>
    /\ last_op' = "_kb_home"
    /\ UNCHANGED <<caseSensitive, disk, after_queue, arg, ret, folder, random_tab, custom_tab,
                   last_render, edits>>

\* BrowserFrame._kb_end (End)
BrowserEnd ==
    /\ \E r \in {_kb_end(browser_tab)} :
          /\ browser_tab' = r.tab
          /\ escaped' = r.raised
    /\ dialogs' = <<>>
    /\ last_op' = "_kb_end"
    /\ UNCHANGED <<caseSensitive, disk, after_queue, arg, ret, folder, random_tab, custom_tab,
                   last_render, edits>>

\* BrowserFrame._on_section_change: the user selects section idx
BrowserSectionChange(idx) ==
    /\ \E r \in {_on_section_change(browser_tab, idx)} :
          /\ browser_tab' = r.tab
          /\ escaped' = r.raised
    /\ dialogs' = <<>>
    /\ last_op' = "_on_section_change"
    /\ UNCHANGED <<caseSensitive, disk, after_queue, arg, ret, folder, random_tab, custom_tab,
                   last_render, edits>>

\* what the user may type into the Item # entry of the Browser tab
JumpTexts == {"1", "4", "6", "999", "0", "-3", "x", "", " 3 "}

\* the user types a text into the Item # entry and presses Go or Return: _on_jump
OnJump(txt) ==
    /\ edits < MaxEdits
    /\ edits' = edits + 1
    /\ \E r \in {_on_jump([browser_tab EXCEPT !.jump_var = txt])} :
          /\ browser_tab' = r.tab
          /\ escaped' = r.raised
    /\ dialogs' = <<>>
    /\ last_op' = "_on_jump"
    /\ UNCHANGED <<caseSensitive, disk, after_queue, arg, ret, folder, random_tab, custom_tab, last_render>>

\* the directories select_folder_via_dialog refuses where every file is enumerated
\* once: fewer than four backs or no front; set_folder reaches them by a direct call
RefusedDirs ==
    {d \in Dirs :
        LET cards == {NumberOf(<<d, x>>) : x \in AppDisk[d]} \cap (21..220)
        IN Cardinality({n \in cards : n % 2 = 0}) < 4 \/ {n \in cards : n % 2 = 1} = {}}

\* the directories whose first card the Browser tab can decode
BrowsableDirs ==
    {d \in Dirs : \A x \in AppDisk[d] :
        (\A y \in AppDisk[d] : NumberOf(<<d, x>>) <= NumberOf(<<d, y>>)) => x \notin Unreadable}

Next ==
    \/ Generate
    \/ RandomOnResize
    \/ RandomDoResize
    \/ \E dir \in BrowsableDirs \cap RefusedDirs : SetFolder(dir)
    \/ \E chosen \in BrowsableDirs \cup {0} : SelectFolderViaDialog(chosen)
    \/ RenderCustom

Spec == Init /\ [][Next]_vars

NextRandom ==
    \/ Generate
    \/ RandomOnResize
    \/ RandomDoResize

SpecRandom == InitRandom /\ [][NextRandom]_vars

NextCustom ==
    \/ \E var \in EntryVars : \E txt \in EntryTexts : TypeEntry(var, txt)
    \/ RenderCustom

SpecCustom == InitCustom /\ [][NextCustom]_vars

\* the changes of folder, every directory of the model among them
InitFolder ==
    /\ Init
    /\ FirstDraw(random_tab)

NextFolder ==
    \/ \E dir \in RefusedDirs : SetFolder(dir)
    \/ \E chosen \in Dirs \cup {0} : SelectFolderViaDialog(chosen)

SpecFolder == InitFolder /\ [][NextFolder]_vars

\* every card the Random tab can draw can be decoded
AllReadable(rt) == \A p \in Range(rt.backs) \cup Range(rt.fronts) : NameOf(p) \notin Unreadable

\* renders that meet a file that cannot be decoded: the Random tab can draw and some
\* card it can draw cannot be decoded; the user asks the Custom tab for such a card
InitRender ==
    /\ InitCustom
    /\ Sufficient(random_tab.fronts, random_tab.backs)
    /\ ~AllReadable(random_tab)

UndecodableFronts ==
    {txt \in EntryTexts : \E p \in Range(custom_tab.index) :
        /\ NameOf(p) \in Unreadable
        /\ _parse_item(txt) # None
        /\ NumberOf(p) = _front_card_num_for_item(_parse_item(txt))}

NextRender ==
    \/ Generate
    \/ \E txt \in UndecodableFronts : TypeEntry("front_var", txt)
    \/ RenderCustom

SpecRender == InitRender /\ [][NextRender]_vars

\* the entries of the Custom tab and of the Browser tab
NextInput ==
    \/ \E var \in EntryVars : \E txt \in EntryTexts : TypeEntry(var, txt)
    \/ RenderCustom
    \/ \E txt \in JumpTexts : OnJump(txt)

SpecInput == InitCustom /\ [][NextInput]_vars

\* the operations of the Browser tab
NextBrowser ==
    \/ BrowserPrev
    \/ BrowserNext
    \/ BrowserFlip
    \/ BrowserHome
    \/ BrowserEnd
    \/ \E idx \in DOMAIN SECTIONS : BrowserSectionChange(idx)
    \/ \E txt \in JumpTexts : OnJump(txt)

SpecBrowser == InitCustom /\ [][NextBrowser]_vars

\* the folder dialog, on either platform, cancelled or closed on a folder that holds
\* fewer than four backs or no front
NextDialog == \E chosen \in RefusedDirs \cup {0} : SelectFolderViaDialog(chosen)

SpecDialog == InitCustom /\ [][NextDialog]_vars

\* window resizes on the three tabs
NextResize ==
    \/ RandomOnResize
    \/ RandomDoResize
    \/ CustomOnResize
    \/ CustomDoResize
    \/ BrowserOnResize
    \/ BrowserDoResize

SpecResize == InitCustom /\ [][NextResize]_vars

\* the directories whose first card the Browser tab cannot decode and that hold a
\* front that can be decoded
HalfReadableDirs ==
    {d \in Dirs \ BrowsableDirs :
        \E x \in AppDisk[d] \ Unreadable : NumberOf(<<d, x>>) % 2 = 1}

\* the Edit button, the folder changing to such a directory (set_folder draws there)
NextEdit ==
    \/ EditToCustom
    \/ \E chosen \in HalfReadableDirs \cup {0} : SelectFolderViaDialog(chosen)

\* the application opened on a folder that cannot make a treasure
InitEdit ==
    /\ Init
    /\ ~Sufficient(random_tab.fronts, random_tab.backs)

SpecEdit == InitEdit /\ [][NextEdit]_vars

TypeOK ==
    /\ folder \in Dirs
    /\ browser_tab.panel \in {"blank", "prompt", "image"}
    /\ escaped \in BOOLEAN
    /\ random_tab.panel \in {"blank", "prompt", "image"}
    /\ custom_tab.panel \in {"blank", "prompt", "image"}

----------------------------------------------------------------------------
(* Random selection                                                        *)

\* the messages of the exceptions pick_random raises on lists that are too short
InsufficientMessages == {"Sample larger than population or is negative",
                         "Cannot choose from an empty sequence"}

\* C6: whenever the back list has at least 4 entries and the front list at least 1,
\* a random generation succeeds, never reports insufficient cards, and selects four
\* pairwise distinct back cards (cluster and crop panel) and a front card of the
\* front list.
C6_RandomDraw ==
    [][(last_op' = "generate" /\ Sufficient(random_tab.fronts, random_tab.backs)) =>
          /\ \A i \in DOMAIN dialogs' : dialogs'[i].message \notin InsufficientMessages
          /\ AllReadable(random_tab) => dialogs' = <<>>
          /\ dialogs' = <<>> =>
                LET p == random_tab'.current_paths
                    drawn == {p.Back1, p.Back2, p.Back3, p.CroppedBack}
                IN /\ Cardinality(drawn) = 4
                   /\ drawn \subseteq Range(random_tab.backs)
                   /\ p.Front \in Range(random_tab.fronts)]_vars

----------------------------------------------------------------------------
(* Manual selection                                                        *)

EntryNames == <<"Front", "Back #1", "Back #2", "Back #3", "Plot Hook">>
EntryVarOf == <<"front_var", "b1_var", "b2_var", "b3_var", "bc_var">>

\* the item a text denotes when it is the decimal numeral of an item 1..100
DecimalItem(txt) ==
    IF \E i \in 1..100 : ToString(i) = txt
    THEN CHOOSE i \in 1..100 : ToString(i) = txt
    ELSE None

\* the card number of the face a role asks for, and of the other face of the item
PreferredCard(k, item) == IF k = 1 THEN 21 + 2 * (item - 1) ELSE 22 + 2 * (item - 1)
OppositeCard(k, item) == IF k = 1 THEN 22 + 2 * (item - 1) ELSE 21 + 2 * (item - 1)

\* C8: for every item 1..100 and role, the entry resolves to the preferred face (the
\* back 22 + 2*(item-1) for Back #1/#2/#3/Plot Hook, the front 21 + 2*(item-1) for
\* Front) when it is in the index, to the opposite face when only that one is, and
\* to nothing, reported with the item and the required face, only when neither is.
C8_ManualFaceResolution ==
    last_op = "render_custom" =>
        \A k \in 1..5 :
            LET name == EntryNames[k]
                txt == custom_tab[EntryVarOf[k]]
                item == DecimalItem(txt)
                pref == PreferredCard(k, item)
                opp == OppositeCard(k, item)
                index == custom_tab.index
                resolvedHere == {r \in Range(last_render.resolved) : r[1] = name}
                missingHere == {m \in Range(last_render.missing) : m.entry = name}
            IN item # None =>
                  IF pref \in DOMAIN index
                  THEN /\ resolvedHere = {<<name, item, index[pref]>>}
                       /\ ExpectedNumber(NameOf(index[pref])) = pref
                       /\ missingHere = {}
                  ELSE IF opp \in DOMAIN index
                  THEN /\ resolvedHere = {<<name, item, index[opp]>>}
                       /\ ExpectedNumber(NameOf(index[opp])) = opp
                       /\ missingHere = {}
                  ELSE /\ resolvedHere = {}
                       /\ missingHere = {[entry |-> name, kind |-> "missing", txt |-> txt,
                                          item |-> item,
                                          side |-> IF k = 1 THEN "front" ELSE "back"]}

\* the Front entry named an item that has only its back, and got the back
C8_Witness ==
    /\ last_op = "render_custom"
    /\ \E r \in Range(last_render.resolved) :
          r[1] = "Front" /\ ExpectedNumber(NameOf(r[3])) = 22 + 2 * (r[2] - 1)

\* entry k cannot be resolved: no item 1..100, or neither face in the index
Fails(ct, k) ==
    LET item == DecimalItem(Strip(ct[EntryVarOf[k]]))
    IN \/ item = None
       \/ /\ PreferredCard(k, item) \notin DOMAIN ct.index
          /\ OppositeCard(k, item) \notin DOMAIN ct.index

FailingEntries(ct) == SelectSeq(<<1, 2, 3, 4, 5>>, LAMBDA k : Fails(ct, k))

\* C9: every entry that is invalid or unresolvable appears in the single warning, in
\* entry order, none skipped after the first failure; and when an entry fails nothing
\* is composed and fullres_image is left unchanged.
C9_AllFailuresAtOnce ==
    [][(last_op' = "render_custom" /\ FailingEntries(custom_tab) # <<>>) =>
          LET failing == FailingEntries(custom_tab)
          IN /\ Len(dialogs') = 1
             /\ dialogs'[1].box = "showwarning"
             /\ dialogs'[1].title = "Missing cards"
             /\ [i \in 1..Len(dialogs'[1].message) |-> dialogs'[1].message[i].entry]
                   = [i \in 1..Len(failing) |-> EntryNames[failing[i]]]
             /\ ~last_render'.raised
             /\ custom_tab'.fullres_image = custom_tab.fullres_image
             /\ custom_tab'.tk_image = custom_tab.tk_image]_vars

\* one warning that lists an invalid entry and, after it, an unresolvable one
C9_Witness ==
    /\ last_op = "render_custom"
    /\ Len(dialogs) = 1
    /\ dialogs[1].box = "showwarning"
    /\ \E i, j \in 1..Len(dialogs[1].message) :
          /\ i < j
          /\ dialogs[1].message[i].kind = "invalid"
          /\ dialogs[1].message[j].kind = "missing"

\* integers outside 1..100 as the user types them
OutOfRangeTexts == {"999", "0", "-3"}

\* C10: an item number outside 1..100 (999, 0, -3) makes resolution fail with a
\* report for that entry, and _path_for_item is not called for that entry.
C10_OutOfRangeItem ==
    last_op = "render_custom" =>
        \A k \in 1..5 :
            custom_tab[EntryVarOf[k]] \in OutOfRangeTexts =>
                /\ Len(dialogs) = 1
                /\ dialogs[1].box = "showwarning"
                /\ \E line \in Range(dialogs[1].message) :
                      line.entry = EntryNames[k] /\ line.txt = custom_tab[EntryVarOf[k]]
                /\ \A l \in Range(last_render.lookups) : l[1] # EntryNames[k]
                /\ \A r \in Range(last_render.resolved) : r[1] # EntryNames[k]

\* Back #2 was asked for item 999 and the render reported it
C10_Witness ==
    /\ last_op = "render_custom"
    /\ custom_tab.b2_var = "999"
    /\ Len(dialogs) = 1
    /\ \E line \in Range(dialogs[1].message) : line.entry = "Back #2" /\ line.kind = "invalid"

----------------------------------------------------------------------------
(* The compositor                                                          *)

\* the canvases the Random and the Custom tab hold
Canvases == {t.fullres_image : t \in {random_tab, custom_tab}} \ {NoneObject}

\* the elements of a canvas that are cards, and the bottom of the cluster they form
CardsOn(im) == {e \in Range(Painted(im)) : e.kind = "card"}
ClusterBottom(im) == Max({e.xy[2] + e.wh[2] : e \in CardsOn(im)})

\* C13: every canvas is 40 + 234 + 744 + 60 + 500 + 40 = 1618 wide and as high as
\* max(cluster bottom, crop panel bottom) + OUTER_MARGIN, whatever the size of the
\* images it was composed from.
C13_CanvasSize ==
    \A im \in Canvases :
        /\ im.size[1] = 40 + 234 + 744 + 60 + 500 + 40
        /\ im.size[1] = 1618
        /\ im.size[2] = Max({ClusterBottom(im), Layout.panel_y + Layout.crop_h}) + OUTER_MARGIN

\* a canvas drawn by generate with a file that is not card-sized among its cards
C13_Witness ==
    /\ last_op = "generate"
    /\ random_tab.fullres_image # NoneObject
    /\ \E e \in CardsOn(random_tab.fullres_image) : ImageSize(NameOf(e.src)) # <<CARD_W, CARD_H>>

\* C14: every card and the crop panel with its matte lie at least OUTER_MARGIN pixels
\* from each edge of the canvas, and the canvas is no larger than that requires.
C14_OuterMargin ==
    \A im \in Canvases :
        LET els == {e \in Range(Painted(im)) : e.kind \in {"card", "mat", "crop"}}
        IN /\ \A e \in els :
                 /\ e.xy[1] >= OUTER_MARGIN
                 /\ e.xy[2] >= OUTER_MARGIN
                 /\ e.xy[1] + e.wh[1] <= im.size[1] - OUTER_MARGIN
                 /\ e.xy[2] + e.wh[2] <= im.size[2] - OUTER_MARGIN
           /\ \E e \in els : e.xy[1] = OUTER_MARGIN
           /\ \E e \in els : e.xy[2] = OUTER_MARGIN
           /\ \E e \in els : e.xy[1] + e.wh[1] = im.size[1] - OUTER_MARGIN
           /\ \E e \in els : e.xy[2] + e.wh[2] = im.size[2] - OUTER_MARGIN

----------------------------------------------------------------------------
(* Invalid item input                                                      *)

\* the integer a text denotes for int(), and whether it is an item number
IsInteger(txt) == IntOf(Strip(txt)).ok
IntegerOf(txt) == IntOf(Strip(txt)).n
OutOfRange(txt) == IsInteger(txt) /\ (IntegerOf(txt) < 1 \/ IntegerOf(txt) > 100)

\* the Browser tab after the user entered txt and pressed Go: a text that is no
\* integer changes nothing, an integer outside 1..100 acts as the nearest of 1 and 100
JumpIgnoresOrClamps(txt) ==
    IF ~IsInteger(txt)
    THEN browser_tab' = [browser_tab EXCEPT !.jump_var = txt] /\ ~escaped'
    ELSE OutOfRange(txt) =>
            \E r \in {_on_jump([browser_tab EXCEPT
                                   !.jump_var = ToString(Clamp(IntegerOf(txt)))])} :
                /\ browser_tab'.current_num = r.tab.current_num
                /\ browser_tab'.current_section = r.tab.current_section
                /\ browser_tab'.tk_image = r.tab.tk_image
                /\ browser_tab'.panel = r.tab.panel
                /\ escaped' = r.raised

----------------------------------------------------------------------------
(* Item numbers and card numbers                                           *)

\* the front card of an item
FrontOf(item) == 21 + 2 * (item - 1)

\* C12: for every item 1..100 with front card number N = 21 + 2*(item-1),
\* card_num_for_item(item_num_for_card(N)) = N.
C12_ItemRoundTrip ==
    ret.fn = "index_all_cards" =>
        \A item \in 1..100 :
            _card_num_for_item(ret.chosen, _item_num_for_card(FrontOf(item))) = FrontOf(item)

\* C12 as the code has it: the round trip gives N for every item 1..100 whose front
\* card N is in the index; _card_num_for_item answers from the index, so for an item
\* whose front is not in it the round trip gives the back N + 1 when that is in the
\* index and None otherwise.
C12_ItemRoundTripInIndex ==
    ret.fn = "index_all_cards" =>
        \A item \in 1..100 :
            LET N == FrontOf(item)
                back == _card_num_for_item(ret.chosen, _item_num_for_card(N))
            IN /\ _item_num_for_card(N) = item
               /\ N \in DOMAIN ret.chosen => back = N
               /\ (N \notin DOMAIN ret.chosen /\ N + 1 \in DOMAIN ret.chosen) => back = N + 1
               /\ (N \notin DOMAIN ret.chosen /\ N + 1 \notin DOMAIN ret.chosen) => back = None

\* an index that holds the front and the back of item 1: the round trip takes the front
C12_Witness ==
    /\ ret.fn = "index_all_cards"
    /\ {21, 22} \subseteq DOMAIN ret.chosen
    /\ _card_num_for_item(ret.chosen, _item_num_for_card(21)) = 21


----------------------------------------------------------------------------
(* No partial render                                                       *)

UndecodableMessage == "cannot identify image file"

\* the files a held canvas was composed from
FilesOf(im) == {NameOf(im.back1), NameOf(im.back2), NameOf(im.back3),
                NameOf(im.back_for_crop), NameOf(im.front)}

\* a generate that met a file it could not decode
GenerateFailed ==
    /\ last_op' = "generate"
    /\ dialogs' # <<>>
    /\ dialogs'[1].message = UndecodableMessage

\* a render_custom that raised
RenderCustomFailed == last_op' = "render_custom" /\ last_render'.raised

\* C16: a render that meets a file it cannot load or decode installs nothing:
\* the tab keeps the fullres_image it held (Random: also current_files and
\* current_paths), and no held canvas is composed from an undecodable file
C16_NoPartialRender ==
    [][/\ GenerateFailed =>
            /\ random_tab'.fullres_image = random_tab.fullres_image
            /\ random_tab'.current_files = random_tab.current_files
            /\ random_tab'.current_paths = random_tab.current_paths
       /\ RenderCustomFailed =>
            custom_tab'.fullres_image = custom_tab.fullres_image
       /\ \A im \in {random_tab'.fullres_image, custom_tab'.fullres_image} \ {NoneObject} :
            FilesOf(im) \cap Unreadable = {}]_vars

C16_Witness ==
    /\ last_op = "generate"
    /\ dialogs # <<>>
    /\ dialogs[1].message = UndecodableMessage
    /\ random_tab.fullres_image # NoneObject
    /\ custom_tab.fullres_image # NoneObject
    /\ last_render.raised


----------------------------------------------------------------------------
(* Errors at the UI boundary                                               *)

\* the user-triggered actions
UserActions == {"generate", "render_custom", "_on_jump", "set_folder",
                "select_folder_via_dialog"}

\* C17: an error raised during a user-triggered action is caught by that
\* action's handler and shown as a dialog or status message: after generate,
\* render_custom, a Browser jump or a folder change no exception has left the
\* handler, and a render that raised has shown a dialog
C17_ErrorsRecovered ==
    last_op \in UserActions =>
        /\ ~escaped
        /\ last_op = "render_custom" /\ last_render.raised => dialogs # <<>>


----------------------------------------------------------------------------
(* Selection reads the index snapshot only                                 *)

\* C18: a random generation or a manual render, successful or failing, leaves
\* the index snapshot as it was: the Random tab's fronts and backs and the
\* Custom tab's index are the same before and after
C18_SelectionSideEffectFree ==
    [][last_op' \in {"generate", "render_custom"} =>
            /\ random_tab'.fronts = random_tab.fronts
            /\ random_tab'.backs = random_tab.backs
            /\ custom_tab'.index = custom_tab.index]_vars

C18_Witness ==
    /\ last_op = "generate"
    /\ dialogs = <<>>
    /\ random_tab.fullres_image # NoneObject
    /\ random_tab.fronts # <<>>
    /\ last_render.raised


----------------------------------------------------------------------------
(* The index after a folder change                                         *)

\* the folders the paths of an index or of a list come from
FoldersOf(paths) == {p[1] : p \in Range(paths)}

\* C19: after a folder change every tab holds an index built from the new
\* folder: the Random tab's fronts and backs, the Browser tab's index and the
\* Custom tab's index are those of the application's folder, whatever the
\* outcome of the re-render each tab performs
C19_IndexRebuilt ==
    last_op \in {"set_folder", "select_folder_via_dialog"} =>
        /\ random_tab.folder = folder
        /\ browser_tab.folder = folder
        /\ custom_tab.folder = folder
        /\ FoldersOf(random_tab.fronts) \cup FoldersOf(random_tab.backs) \subseteq {folder}
        /\ FoldersOf(browser_tab.index) \subseteq {folder}
        /\ FoldersOf(custom_tab.index) \subseteq {folder}


----------------------------------------------------------------------------
(* The special case of card 1                                              *)

MaxIndexFiles == 3

InitIndex ==
    /\ caseSensitive \in BOOLEAN
    /\ \E files \in SUBSET IndexNames :
          /\ Cardinality(files) <= MaxIndexFiles
          /\ caseSensitive \/ NoCaseClash(files)
          /\ disk = <<files>>
    /\ arg = [dir |-> 1]
    /\ ret = [fn |-> "none"]
    /\ NoApp

NextIndex == CallIndexAllCards

SpecIndex == InitIndex /\ [][NextIndex]_vars

\* the enumerated files that carry the number n (None: no number)
Numbered(jpgs, n) == {p \in Range(jpgs) : NumberOf(p) = n}

\* the unnumbered files whose stem, trailing digits stripped, is that of card 2
StemMatches(jpgs, chosen) ==
    IF 2 \notin DOMAIN chosen THEN {}
    ELSE {p \in Numbered(jpgs, None) :
            _strip_trailing_digits(PathStem(NameOf(p))) =
            _strip_trailing_digits(PathStem(NameOf(chosen[2])))}

\* C20: index_all_cards maps card 1 to an unnumbered file exactly when no file
\* carries the number 1, card 2 is in the index and some unnumbered file's stem
\* with trailing digits stripped equals card 2's stem with trailing digits
\* stripped; the file taken is a first such file by case-insensitive name; a
\* numbered card 1 is never replaced, and with no match card 1 stays absent
C20_SpecialCaseCardOne ==
    ret.fn = "index_all_cards" =>
        LET chosen == ret.chosen
            ones == Numbered(ret.jpgs, 1)
            matches == StemMatches(ret.jpgs, chosen)
            inferred == 1 \in DOMAIN chosen /\ NumberOf(chosen[1]) = None
        IN /\ inferred <=> (ones = {} /\ 2 \in DOMAIN chosen /\ matches # {})
           /\ inferred =>
                /\ chosen[1] \in matches
                /\ \A q \in matches : ~StrLess(LowerOf(NameOf(q)), LowerOf(NameOf(chosen[1])))
           /\ ones # {} => 1 \in DOMAIN chosen /\ chosen[1] \in ones
           /\ (ones = {} /\ matches = {}) => 1 \notin DOMAIN chosen

C20_Witness ==
    /\ ret.fn = "index_all_cards"
    /\ 1 \in DOMAIN ret.chosen
    /\ NumberOf(ret.chosen[1]) = None
    /\ Cardinality(StemMatches(ret.jpgs, ret.chosen)) = 2
    /\ Cardinality(Numbered(ret.jpgs, 2)) = 1


----------------------------------------------------------------------------
(* Paint order, offsets and label                                          *)

\* the positions in the paint sequence at which the four cards are composited
CardPositions(im) == {i \in DOMAIN Painted(im) : Painted(im)[i].kind = "card"}

\* the four cards of a canvas in the order of compose_treasure's arguments
StackOf(im) == <<im.back1, im.back2, im.back3, im.front>>

\* C22: compose_treasure paints back #1, back #2, back #3 and the front in that
\* order, each card's shadow immediately before the card: the front is the topmost
\* of the four and no card is painted before its own shadow
C22_PaintOrder ==
    \A im \in Canvases :
        LET seq == Painted(im)
        IN /\ CardPositions(im) = {2, 4, 6, 8}
           /\ \A k \in 1..4 :
                /\ seq[2 * k].src = StackOf(im)[k]
                /\ seq[2 * k - 1].kind = "shadow"
                /\ seq[2 * k - 1].src = StackOf(im)[k]
                /\ seq[2 * k - 1].xy = <<seq[2 * k].xy[1] + SHADOW_OFFSET[1],
                                         seq[2 * k].xy[2] + SHADOW_OFFSET[2]>>
           /\ seq[Max(CardPositions(im))].src = im.front

C22_Witness ==
    /\ last_op = "generate"
    /\ dialogs = <<>>
    /\ random_tab.fullres_image # NoneObject
    /\ Cardinality(Range(StackOf(random_tab.fullres_image))) = 4

\* where a card of the canvas is pasted, relative to back #1
OffsetOf(im, k) ==
    LET seq == Painted(im)
    IN <<seq[2 * k].xy[1] - seq[2].xy[1], seq[2 * k].xy[2] - seq[2].xy[2]>>

\* C23: the layout is the one the module docstring documents: relative to back #1,
\* back #2 is at (0, +578), back #3 at (-234, +144), the front at (0, +144), and
\* the standalone back is cropped to (238, 233)-(738, 575)
C23_DocumentedOffsets ==
    \A im \in Canvases :
        /\ OffsetOf(im, 2) = <<0, 578>>
        /\ OffsetOf(im, 3) = <<-234, 144>>
        /\ OffsetOf(im, 4) = <<0, 144>>
        /\ CROP_BOX = <<238, 233, 738, 575>>

\* the face a card number denotes
FaceOf(n) == IF n % 2 = 1 THEN "Front" ELSE "Back"

\* C24: the label on the front slot shows the number of the card in the slot and
\* the face that number denotes (odd: Front, even: Back), a back used as fallback
\* in manual mode included
C24_LabelFace ==
    \A im \in Canvases :
        NumberOf(im.front) # None =>
            im.label = "#" \o ToString(NumberOf(im.front)) \o " " \o FaceOf(NumberOf(im.front))


----------------------------------------------------------------------------
(* Resize debounce                                                         *)

TabNames == {"random", "custom", "browser"}

\* what the job of a tab displays: the canvas the tab holds, if it holds one
Redisplayed(before, after_, canvas) ==
    /\ after_.resize_job = None
    /\ after_.tk_image = IF canvas # NoneObject THEN canvas ELSE before.tk_image
    /\ canvas = NoneObject => after_.panel = before.panel

\* C21: a resize event cancels the tab's pending job and schedules one, so at most
\* one job is pending per tab and after a burst of events exactly one is; the job
\* runs once, after the last event, leaves none pending, re-displays the tab's
\* canvas and renders nothing when the tab has no canvas
C21_ResizeDebounce ==
    [][/\ \A t \in TabNames : Cardinality(PendingJobs(after_queue', t)) <= 1
       /\ RandomOnResize =>
            PendingJobs(after_queue', "random") = {<<"random", random_tab'.resize_job>>}
       /\ CustomOnResize =>
            PendingJobs(after_queue', "custom") = {<<"custom", custom_tab'.resize_job>>}
       /\ BrowserOnResize =>
            PendingJobs(after_queue', "browser") = {<<"browser", browser_tab'.resize_job>>}
       /\ RandomDoResize =>
            /\ PendingJobs(after_queue', "random") = {}
            /\ Redisplayed(random_tab, random_tab', random_tab.fullres_image)
       /\ CustomDoResize =>
            /\ PendingJobs(after_queue', "custom") = {}
            /\ Redisplayed(custom_tab, custom_tab', custom_tab.fullres_image)
       /\ BrowserDoResize =>
            /\ PendingJobs(after_queue', "browser") = {}
            /\ Redisplayed(browser_tab, browser_tab',
                           IF browser_tab.tk_image # NoneObject THEN browser_tab.last_pillow
                           ELSE NoneObject)]_vars

C21_Witness ==
    /\ last_op = "_do_resize"
    /\ random_tab.fullres_image = NoneObject
    /\ random_tab.resize_job = None
    /\ Cardinality(after_queue) = 2


----------------------------------------------------------------------------
(* The folder dialog                                                       *)

\* C25: when the folder chosen in the dialog holds fewer than 4 backs or no front,
\* or the dialog is cancelled, the application keeps its folder, the Random tab its
\* lists, the Browser and the Custom tab their indexes, and every tab its canvas:
\* set_folder is invoked only for a folder that qualifies
C25_RejectionKeepsState ==
    [][\A chosen \in RefusedDirs \cup {0} :
          SelectFolderViaDialog(chosen) =>
              /\ folder' = folder
              /\ random_tab' = random_tab
              /\ browser_tab' = browser_tab
              /\ custom_tab' = custom_tab]_vars


----------------------------------------------------------------------------
(* Canvases after a folder change                                          *)

\* the folders the files of a composite come from
CanvasFolders(im) == FoldersOf(StackOf(im) \o <<im.back_for_crop>>)

\* C26: after a folder change every canvas a tab displays, at once or when a later
\* resize re-displays the canvas the tab holds, was composed from files of the
\* application's folder; the Custom tab keeps no canvas of the previous folder
C26_NoStaleCanvas ==
    /\ \A t \in {random_tab, custom_tab} :
          \A im \in {t.tk_image, t.fullres_image} \ {NoneObject} :
              CanvasFolders(im) \subseteq {folder}
    /\ browser_tab.tk_image # NoneObject => browser_tab.tk_image.card[1] = folder


----------------------------------------------------------------------------
(* The Browser tab                                                         *)

\* the card after cur going up with wrap-around, and the card before it going down
CardAfter(index, cur) ==
    LET up == {n \in DOMAIN index : n > cur}
    IN IF up # {} THEN Min(up) ELSE Min(DOMAIN index)

CardBefore(index, cur) ==
    LET down == {n \in DOMAIN index : n < cur}
    IN IF down # {} THEN Max(down) ELSE Max(DOMAIN index)

RECURSIVE Visited(_, _)
\* the cards k consecutive _next steps show
Visited(bt, k) ==
    IF k = 0 THEN <<>>
    ELSE LET step == _next(bt).tab IN <<step.current_num>> \o Visited(step, k - 1)

\* C27: with a non-empty index _next moves current_num to the smallest indexed number
\* above it, or to the smallest indexed number when there is none, and _prev mirrors
\* it; afterwards current_num is in the index; from an indexed card _next then _prev
\* and _prev then _next return to the card; |index| consecutive _next steps show every
\* indexed card once; with an empty index both change nothing
C27_WrapAroundNavigation ==
    /\ [][/\ BrowserNext =>
               IF DOMAIN browser_tab.index = {} THEN browser_tab' = browser_tab
               ELSE /\ browser_tab'.current_num = CardAfter(browser_tab.index, browser_tab.current_num)
                    /\ browser_tab'.current_num \in DOMAIN browser_tab'.index
          /\ BrowserPrev =>
               IF DOMAIN browser_tab.index = {} THEN browser_tab' = browser_tab
               ELSE /\ browser_tab'.current_num = CardBefore(browser_tab.index, browser_tab.current_num)
                    /\ browser_tab'.current_num \in DOMAIN browser_tab'.index]_vars
    /\ [](browser_tab.current_num \in DOMAIN browser_tab.index =>
            /\ _prev(_next(browser_tab).tab).tab.current_num = browser_tab.current_num
            /\ _next(_prev(browser_tab).tab).tab.current_num = browser_tab.current_num)
    /\ [](LET seen == Visited(browser_tab, Cardinality(DOMAIN browser_tab.index))
          IN /\ Range(seen) = DOMAIN browser_tab.index
             /\ \A i, j \in DOMAIN seen : seen[i] = seen[j] => i = j)

C27_Witness ==
    /\ last_op = "_next"
    /\ Cardinality(DOMAIN browser_tab.index) >= 2
    /\ browser_tab.current_num = Min(DOMAIN browser_tab.index)
    /\ browser_tab.current_section = 4

\* C28: after any sequence of Browser operations the bounds of the selected section
\* contain current_num: the card shown belongs to the section the selector shows
C28_SectionContainsCard ==
    /\ _section_bounds(browser_tab.current_section)[1] <= browser_tab.current_num
    /\ browser_tab.current_num <= _section_bounds(browser_tab.current_section)[2]

\* the items 1..100 with a card in the index, and the card _on_jump shows for one
ItemsWithCard(index) ==
    {j \in 1..100 : FrontOf(j) \in DOMAIN index \/ FrontOf(j) + 1 \in DOMAIN index}

ShownCardOf(index, j) == IF FrontOf(j) \in DOMAIN index THEN FrontOf(j) ELSE FrontOf(j) + 1

\* the item with a card nearest to item i, the higher one on a tie
NearestItem(index, i) ==
    LET items == ItemsWithCard(index)
        least == Min({Abs(j - i) : j \in items})
    IN Max({j \in items : Abs(j - i) = least})

\* C29: for an integer entry clamped to item i, _on_jump shows the front card of i if
\* it is in the index, else its back card; if item i has no card it goes to an item
\* with a card that minimises the distance to i, the higher item on a tie, and the
\* section becomes Items; if no item has a card, current_num and the section stay
C29_JumpToNearestItem ==
    [][\A txt \in JumpTexts :
          (IsInteger(txt) /\ OnJump(txt)) =>
              LET index == browser_tab.index
                  i == Clamp(IntegerOf(txt))
              IN IF ItemsWithCard(index) = {}
                 THEN /\ browser_tab'.current_num = browser_tab.current_num
                      /\ browser_tab'.current_section = browser_tab.current_section
                 ELSE /\ browser_tab'.current_num = ShownCardOf(index, NearestItem(index, i))
                      /\ browser_tab'.current_section = 4]_vars

C29_Witness ==
    /\ last_op = "_on_jump"
    /\ folder = 2
    /\ browser_tab.current_num = 29
    /\ ~escaped


\* ---- Edit: the selection of the Random tab carried over to the Custom tab ----

\* the keys of the selection behind the five entries of EntryNames
RoleKeys == <<"Front", "Back1", "Back2", "Back3", "CroppedBack">>

\* the selection the Random tab shows was drawn from the folder the tab holds
SelectionDrawn(rt) ==
    /\ rt.current_paths # <<>>
    /\ \A k \in 1..5 : rt.current_paths[RoleKeys[k]][1] = rt.folder

\* C30: after a successful random generation, Edit makes the Custom render resolve each
\* of the five roles (Front, Back #1, Back #2, Back #3, Plot Hook) to the card number
\* the random selection used for that role.
C30_EditCarriesSelection ==
    [][(EditToCustom /\ SelectionDrawn(random_tab)) =>
          \A k \in 1..5 :
             \E r \in Range(last_render'.resolved) :
                /\ r[1] = EntryNames[k]
                /\ NumberOf(r[3]) = NumberOf(random_tab.current_paths[RoleKeys[k]])]_vars

====
